---- MODULE Spec2Model ----
(***************************************************************************)
(* Model of package swag's YAML <-> JSON conversion (src/yaml.go) and of   *)
(* JoinByFormat / SplitByFormat (src/util.go).                             *)
(*                                                                         *)
(* Text (node values, keys, JSON number tokens) is a sequence of           *)
(* one-character strings, so that strconv's parsing and formatting are     *)
(* computed digit by digit.  Integers and floats are kept as normalised    *)
(* decimal digit sequences: the 64-bit limits are compared digit-wise.     *)
(* Floats are restricted to short plain decimals, for which float64's      *)
(* shortest round-trippable rendering is the normalised decimal itself.    *)
(*                                                                         *)
(* A Go (value, error) pair is [val, err]; err is the chain of messages     *)
(* built by fmt.Errorf wrapping, outermost first, and <<>> is a nil error. *)
(***************************************************************************)
EXTENDS Naturals, Sequences, FiniteSets, TLC

(* ------------------------------------------------------------------ *)
(* Bounds of the explored inputs                                      *)
(* ------------------------------------------------------------------ *)
MaxPairs == 2

MaxSeqLen == 1

MaxProcessors == 3

MaxTokens == 2

\* the nesting of yamlNode calls that the goroutine's stack can hold
MaxDepth == 8

(* ------------------------------------------------------------------ *)
(* Text helpers                                                       *)
(* ------------------------------------------------------------------ *)
Digits == <<"0", "1", "2", "3", "4", "5", "6", "7", "8", "9">>

IsDigit(c) == \E i \in 1..Len(Digits) : Digits[i] = c

DigitVal(c) == (CHOOSE i \in 1..Len(Digits) : Digits[i] = c) - 1

AllDigits(s) == \A i \in 1..Len(s) : IsDigit(s[i])

RECURSIVE StripZeros(_)
\* the digits without their leading zeros; "0" for an all-zero text
StripZeros(s) ==
  IF Len(s) <= 1 THEN (IF s = <<>> THEN <<"0">> ELSE s)
  ELSE IF Head(s) = "0" THEN StripZeros(Tail(s)) ELSE s

RECURSIVE StripTrailingZeros(_)
StripTrailingZeros(s) ==
  IF s = <<>> THEN <<>>
  ELSE IF s[Len(s)] = "0" THEN StripTrailingZeros(SubSeq(s, 1, Len(s) - 1)) ELSE s

RECURSIVE LexLE(_, _)
\* a <= b for digit texts of the same length
LexLE(a, b) ==
  IF a = <<>> THEN TRUE
  ELSE IF DigitVal(Head(a)) < DigitVal(Head(b)) THEN TRUE
  ELSE IF DigitVal(Head(a)) > DigitVal(Head(b)) THEN FALSE
  ELSE LexLE(Tail(a), Tail(b))

\* a <= b for normalised digit texts (no leading zeros)
DigLE(a, b) ==
  IF Len(a) # Len(b) THEN Len(a) < Len(b) ELSE LexLE(a, b)

\* math.MaxInt64 and 1<<63, the limits strconv.ParseInt(s, 10, 64) enforces
MaxInt64Text ==
  <<"9","2","2","3","3","7","2","0","3","6","8","5","4","7","7","5","8","0","7">>

MinInt64Magnitude ==
  <<"9","2","2","3","3","7","2","0","3","6","8","5","4","7","7","5","8","0","8">>

\* math.MaxUint64
MaxUint64Text ==
  <<"1","8","4","4","6","7","4","4","0","7","3","7","0","9","5","5","1","6","1","5">>

\* the characters the model's texts are made of, in byte order
Alphabet ==
  <<"\t", " ", "+", ",", "-", ".", "0", "1", "2", "3", "4", "5", "6", "7", "8",
    "9", "A", "B", "E", "F", "L", "N", "R", "S", "T", "U", "V", "a", "b", "e",
    "f", "l", "n", "r", "s", "t", "u", "x", "y", "|", "~">>

ByteOf(c) == CHOOSE i \in 1..Len(Alphabet) : Alphabet[i] = c

RECURSIVE StringLess(_, _)
\* Go's a < b on strings: byte-wise, a proper prefix being smaller
StringLess(a, b) ==
  IF b = <<>> THEN FALSE
  ELSE IF a = <<>> THEN TRUE
  ELSE IF ByteOf(Head(a)) # ByteOf(Head(b)) THEN ByteOf(Head(a)) < ByteOf(Head(b))
  ELSE StringLess(Tail(a), Tail(b))

RECURSIVE InsertSorted(_, _)
InsertSorted(k, sorted) ==
  IF sorted = <<>> THEN <<k>>
  ELSE IF StringLess(Head(sorted), k)
    THEN <<Head(sorted)>> \o InsertSorted(k, Tail(sorted))
    ELSE <<k>> \o sorted

\* the keys left in the order the map's iteration gave them
sortStrings_asIs(keys) == keys

RECURSIVE sortStrings(_)
\* sort.Strings(keys): the keys in ascending order
sortStrings(keys) ==
  IF keys = <<>> THEN <<>>
  ELSE InsertSorted(keys[Len(keys)], sortStrings(SubSeq(keys, 1, Len(keys) - 1)))

(* ------------------------------------------------------------------ *)
(* Go values held in an interface{}                                   *)
(* ------------------------------------------------------------------ *)
Nil == [type |-> "nil"]

String(t) == [type |-> "string", str |-> t]

Bool(b) == [type |-> "bool", b |-> b]

Int64(neg, digits) == [type |-> "int64", neg |-> neg, digits |-> digits]

Uint64(digits) == [type |-> "uint64", udigits |-> digits]

Float64(neg, int, frac) ==
  [type |-> "float64", fneg |-> neg, int |-> int, frac |-> frac]

\* a JSONMapSlice; isnil tells the nil slice from an empty one
MapSlice(items, isnil) ==
  [type |-> "JSONMapSlice", items |-> items, isnil |-> isnil]

MapItem(k, v) == [Key |-> k, Value |-> v]

\* a []interface{}
List(elems, isnil) == [type |-> "[]interface{}", elems |-> elems, lnil |-> isnil]

\* a map[string]interface{}: pairs holds the entries (distinct keys) in the
\* order in which a range over the map yields them
StringMap(pairs, isnil) ==
  [type |-> "map[string]interface{}", pairs |-> pairs, mnil |-> isnil]

\* val[k] on a map
MapIndex(pairs, k) ==
  IF \E i \in 1..Len(pairs) : pairs[i].Key = k
    THEN pairs[CHOOSE i \in 1..Len(pairs) : pairs[i].Key = k].Value
    ELSE Nil

\* a map[interface{}]interface{}: the entries in the order in which a range
\* over the map yields them; a Key is itself a Go value
GenericMap(pairs, isnil) ==
  [type |-> "map[interface{}]interface{}", gpairs |-> pairs, gnil |-> isnil]

SignedTypes == {"int", "int8", "int16", "int32", "int64"}

UnsignedTypes == {"uint", "uint8", "uint16", "uint32", "uint64"}

\* a signed or unsigned integer of the named type
Signed(type, neg, digits) == [type |-> type, neg |-> neg, digits |-> digits]

Unsigned(type, digits) == [type |-> type, udigits |-> digits]

\* a composite map key: an array [2]int
IntArray(a) == [type |-> "[2]int", arr |-> a]

\* a JSONSliceItem struct
SliceItem(v) == [type |-> "JSONSliceItem", Value |-> v]

\* values of types json2yaml has no case for: an int, a float32, a []byte
GoInt(neg, digits) == [type |-> "int", neg |-> neg, digits |-> digits]

Float32(neg, int, frac) ==
  [type |-> "float32", f32neg |-> neg, f32int |-> int, f32frac |-> frac]

Bytes(b) == [type |-> "[]uint8", bytes |-> b]

\* a non-nil *interface{} pointing at v
PtrTo(v) == [type |-> "*interface{}", elem |-> v]

\* the value of the one-element set S: One({ F(x) : x \in {e} }) is
\* F(e) with e computed once
One(S) == CHOOSE y \in S : TRUE

NoErr == <<>>

Ok(v) == [val |-> v, err |-> NoErr]

Fail(e) == [val |-> Nil, err |-> e]

\* fmt.Errorf("<msg>: %w: %w", err, ErrYAML)
Wrap(msg, e) == <<msg>> \o e

\* a run-time panic unwinds through every caller unchanged
PanicIndex == <<"panic: index out of range">>

IsPanic(e) == e # <<>> /\ e[1] = PanicIndex[1]

(* ------------------------------------------------------------------ *)
(* strconv                                                            *)
(* ------------------------------------------------------------------ *)
\* strconv.ParseBool
ParseBool(s) ==
  IF s \in { <<"1">>, <<"t">>, <<"T">>, <<"T","R","U","E">>,
             <<"t","r","u","e">>, <<"T","r","u","e">> }
    THEN Ok(Bool(TRUE))
  ELSE IF s \in { <<"0">>, <<"f">>, <<"F">>, <<"F","A","L","S","E">>,
                  <<"f","a","l","s","e">>, <<"F","a","l","s","e">> }
    THEN Ok(Bool(FALSE))
  ELSE Fail(<<"strconv.ParseBool: invalid syntax">>)

\* strconv.ParseInt(s, 10, 64)
ParseInt(s) ==
  IF s = <<>> THEN Fail(<<"strconv.ParseInt: invalid syntax">>)
  ELSE
    LET signed == Head(s) \in {"+", "-"}
        neg    == Head(s) = "-"
        body   == IF signed THEN Tail(s) ELSE s
    IN  IF body = <<>> \/ ~AllDigits(body)
          THEN Fail(<<"strconv.ParseInt: invalid syntax">>)
        ELSE
          LET mag == StripZeros(body)
          IN  IF ~neg /\ ~DigLE(mag, MaxInt64Text)
                THEN Fail(<<"strconv.ParseInt: value out of range">>)
              ELSE IF neg /\ ~DigLE(mag, MinInt64Magnitude)
                THEN Fail(<<"strconv.ParseInt: value out of range">>)
              ELSE Ok(Int64(neg /\ mag # <<"0">>, mag))

\* strconv.FormatInt(v, 10)
FormatInt(v) == IF v.neg THEN <<"-">> \o v.digits ELSE v.digits

\* strconv.FormatUint(v, 10)
FormatUint(v) == v.udigits

\* index of the decimal point in s, 0 when there is none
DotAt(s) ==
  IF \E i \in 1..Len(s) : s[i] = "."
    THEN CHOOSE i \in 1..Len(s) : s[i] = "." /\ \A j \in 1..(i - 1) : s[j] # "."
    ELSE 0

\* strconv.ParseFloat(s, 64) on plain decimals [sign] digits [. digits]
ParseFloat(s) ==
  IF s = <<>> THEN Fail(<<"strconv.ParseFloat: invalid syntax">>)
  ELSE
    LET signed == Head(s) \in {"+", "-"}
        neg    == Head(s) = "-"
        body   == IF signed THEN Tail(s) ELSE s
        dot    == DotAt(body)
        ip     == IF dot = 0 THEN body ELSE SubSeq(body, 1, dot - 1)
        fp     == IF dot = 0 THEN <<>> ELSE SubSeq(body, dot + 1, Len(body))
    IN  IF ~AllDigits(ip) \/ ~AllDigits(fp) \/ (ip = <<>> /\ fp = <<>>)
          THEN Fail(<<"strconv.ParseFloat: invalid syntax">>)
        ELSE Ok(Float64(neg, StripZeros(ip), StripTrailingZeros(fp)))

\* strconv.FormatFloat(v, 'f', -1, 64)
FormatFloat(v) ==
  (IF v.fneg THEN <<"-">> ELSE <<>>)
    \o v.int
    \o (IF v.frac = <<>> THEN <<>> ELSE <<".">> \o v.frac)

\* strconv.FormatBool
FormatBool(v) ==
  IF v.b THEN <<"t","r","u","e">> ELSE <<"f","a","l","s","e">>

(* ------------------------------------------------------------------ *)
(* yaml.Node                                                          *)
(* ------------------------------------------------------------------ *)
yamlStringScalar == "tag:yaml.org,2002:str"

yamlIntScalar == "tag:yaml.org,2002:int"

yamlBoolScalar == "tag:yaml.org,2002:bool"

yamlFloatScalar == "tag:yaml.org,2002:float"

yamlTimestamp == "tag:yaml.org,2002:timestamp"

yamlNull == "tag:yaml.org,2002:null"

\* a *yaml.Node: Content and Alias hold the nodes pointed at (Alias has
\* zero or one element)
Node(kind, tag, value, content, alias) ==
  [Kind |-> kind, Tag |-> tag, Value |-> value, Content |-> content,
   Alias |-> alias]

Scalar(tag, value) == Node("ScalarNode", tag, value, <<>>, <<>>)

Mapping(content) == Node("MappingNode", "", <<>>, content, <<>>)

Sequence(content) == Node("SequenceNode", "", <<>>, content, <<>>)

Document(content) == Node("DocumentNode", "", <<>>, content, <<>>)

AliasTo(n) == Node("AliasNode", "", <<>>, <<>>, <<n>>)

\* the &yaml.Node{} zero value
ZeroNode == Node("ZeroKind", "", <<>>, <<>>, <<>>)

NullWords ==
  { <<>>, <<"~">>, <<"n","u","l","l">>, <<"N","u","l","l">>, <<"N","U","L","L">> }

BoolWords ==
  { <<"t","r","u","e">>, <<"T","r","u","e">>, <<"T","R","U","E">>,
    <<"f","a","l","s","e">>, <<"F","a","l","s","e">>, <<"F","A","L","S","E">> }

\* yaml.v3's resolution of an untagged plain scalar, in short-tag form
ResolveTag(value) ==
  IF value \in NullWords THEN "!!null"
  ELSE IF value \in BoolWords THEN "!!bool"
  ELSE IF ParseInt(value).err = NoErr THEN "!!int"
  ELSE IF ParseFloat(value).err = NoErr THEN "!!float"
  ELSE "!!str"

\* yaml.v3's longTag: "!!x" stands for "tag:yaml.org,2002:x"
LongOf(tag) ==
  CASE tag = "!!str" -> yamlStringScalar
    [] tag = "!!int" -> yamlIntScalar
    [] tag = "!!bool" -> yamlBoolScalar
    [] tag = "!!float" -> yamlFloatScalar
    [] tag = "!!timestamp" -> yamlTimestamp
    [] tag = "!!null" -> yamlNull
    [] tag = "!!binary" -> "tag:yaml.org,2002:binary"
    [] tag = "!!map" -> "tag:yaml.org,2002:map"
    [] tag = "!!seq" -> "tag:yaml.org,2002:seq"
    [] OTHER -> tag

RECURSIVE LongTag(_)
\* node.LongTag(): the tag in long form; an empty tag is resolved from
\* the node's kind and, for a scalar, from its text
LongTag(node) ==
  IF node.Tag = "" \/ node.Tag = "!"
    THEN CASE node.Kind = "MappingNode" -> LongOf("!!map")
           [] node.Kind = "SequenceNode" -> LongOf("!!seq")
           [] node.Kind = "AliasNode" ->
                IF node.Alias # <<>> THEN LongTag(node.Alias[1]) ELSE ""
           [] node.Kind = "ScalarNode" -> LongOf(ResolveTag(node.Value))
           [] node.Kind = "ZeroKind" -> LongOf("!!null")
           [] OTHER -> ""
    ELSE LongOf(node.Tag)

(* ------------------------------------------------------------------ *)
(* The tree walker: yamlNode and its helpers                          *)
(* ------------------------------------------------------------------ *)
\* yamlScalar with a null-tagged node read by its text, as an untagged
\* scalar is (a null-tagged "false" becomes a boolean)
yamlScalar_nullFromText(node) ==
  LET tag == IF LongTag(node) = yamlNull
               THEN LongOf(ResolveTag(node.Value)) ELSE LongTag(node)
  IN  CASE tag = yamlStringScalar -> Ok(String(node.Value))
        [] tag = yamlBoolScalar ->
             IF ParseBool(node.Value).err # NoErr
               THEN Fail(Wrap("unable to process scalar node. Expecting bool content",
                              ParseBool(node.Value).err))
               ELSE ParseBool(node.Value)
        [] tag = yamlIntScalar ->
             IF ParseInt(node.Value).err # NoErr
               THEN Fail(Wrap("unable to process scalar node. Expecting integer content",
                              ParseInt(node.Value).err))
               ELSE ParseInt(node.Value)
        [] tag = yamlFloatScalar ->
             IF ParseFloat(node.Value).err # NoErr
               THEN Fail(Wrap("unable to process scalar node. Expecting float content",
                              ParseFloat(node.Value).err))
               ELSE ParseFloat(node.Value)
        [] tag = yamlTimestamp -> Ok(String(node.Value))
        [] tag = yamlNull -> Ok(Nil)
        [] OTHER -> Fail(<<"YAML tag is not supported">>)

\* yamlScalar falling back to the raw text when the tag is unknown or the
\* text does not parse
yamlScalar_stringFallback(node) ==
  LET tag == LongTag(node)
  IN  CASE tag = yamlBoolScalar /\ ParseBool(node.Value).err = NoErr -> ParseBool(node.Value)
        [] tag = yamlIntScalar /\ ParseInt(node.Value).err = NoErr -> ParseInt(node.Value)
        [] tag = yamlFloatScalar /\ ParseFloat(node.Value).err = NoErr -> ParseFloat(node.Value)
        [] tag = yamlNull -> Ok(Nil)
        [] OTHER -> Ok(String(node.Value))

\* yamlScalar
yamlScalar(node) ==
  LET tag == LongTag(node)
  IN  CASE tag = yamlStringScalar -> Ok(String(node.Value))
        [] tag = yamlBoolScalar ->
             LET r == ParseBool(node.Value)
             IN  IF r.err # NoErr
                   THEN Fail(Wrap("unable to process scalar node. Expecting bool content", r.err))
                   ELSE Ok(r.val)
        [] tag = yamlIntScalar ->
             LET r == ParseInt(node.Value)
             IN  IF r.err # NoErr
                   THEN Fail(Wrap("unable to process scalar node. Expecting integer content", r.err))
                   ELSE Ok(r.val)
        [] tag = yamlFloatScalar ->
             LET r == ParseFloat(node.Value)
             IN  IF r.err # NoErr
                   THEN Fail(Wrap("unable to process scalar node. Expecting float content", r.err))
                   ELSE Ok(r.val)
        [] tag = yamlTimestamp -> Ok(String(node.Value))
        [] tag = yamlNull -> Ok(Nil)
        [] OTHER -> Fail(<<"YAML tag is not supported">>)

\* yamlStringScalarC without the check of the key's tag
yamlStringScalarC_anyTag(node) ==
  IF node.Kind # "ScalarNode"
    THEN [val |-> <<>>, err |-> <<"expecting a string scalar">>]
    ELSE [val |-> node.Value, err |-> NoErr]

\* yamlStringScalarC: the text of a mapping key; the result's val is a Go string
yamlStringScalarC(node) ==
  IF node.Kind # "ScalarNode"
    THEN [val |-> <<>>, err |-> <<"expecting a string scalar">>]
  ELSE IF LongTag(node) \in {yamlStringScalar, yamlIntScalar, yamlFloatScalar}
    THEN [val |-> node.Value, err |-> NoErr]
  ELSE [val |-> <<>>, err |-> <<"YAML tag is not supported as map key">>]

RECURSIVE yamlNode(_)
RECURSIVE yamlMappingLoop(_, _, _)
RECURSIVE yamlSequenceLoop(_, _, _)
RECURSIVE yamlSequenceLoop_partial(_, _, _)

\* the loop of yamlMapping from index i (1-based) with the entries m
\* stored so far
yamlMappingLoop(node, i, m) ==
  IF i > Len(node.Content) THEN Ok(MapSlice(m, FALSE))
  ELSE
    LET k == yamlStringScalarC(node.Content[i])
    IN  IF k.err # NoErr
          THEN Fail(Wrap("unable to decode YAML map key", k.err))
        ELSE IF i + 1 > Len(node.Content)
          THEN Fail(PanicIndex)
        ELSE
          LET v == yamlNode(node.Content[i + 1])
          IN  IF IsPanic(v.err) THEN Fail(v.err)
              ELSE IF v.err # NoErr
                THEN Fail(Wrap("unable to process YAML map value for key", v.err))
              ELSE yamlMappingLoop(node, i + 2, Append(m, MapItem(k.val, v.val)))

RECURSIVE LastOfEachKey(_)
LastOfEachKey(m) ==
  IF m = <<>> THEN <<>>
  ELSE IF \E j \in 2..Len(m) : m[j].Key = m[1].Key
    THEN LastOfEachKey(Tail(m))
    ELSE <<m[1]>> \o LastOfEachKey(Tail(m))

\* yamlMapping storing entries by key, a later duplicate replacing the earlier
yamlMapping_overwrite(node) ==
  LET r == yamlMappingLoop(node, 1, <<>>)
  IN  IF r.err # NoErr THEN r ELSE Ok(MapSlice(LastOfEachKey(r.val.items), FALSE))

yamlMapping(node) == yamlMappingLoop(node, 1, <<>>)

\* yamlSequence returning, with the error, the elements decoded before it
yamlSequenceLoop_partial(node, i, s) ==
  IF i > Len(node.Content) THEN Ok(List(s, FALSE))
  ELSE
    LET v == yamlNode(node.Content[i])
    IN  IF v.err # NoErr
          THEN [val |-> List(s, FALSE),
                err |-> Wrap("unable to decode YAML sequence value", v.err)]
        ELSE yamlSequenceLoop_partial(node, i + 1, Append(s, v.val))

\* the loop of yamlSequence from index i with the elements s appended so far
yamlSequenceLoop(node, i, s) ==
  IF i > Len(node.Content) THEN Ok(List(s, FALSE))
  ELSE
    LET v == yamlNode(node.Content[i])
    IN  IF IsPanic(v.err) THEN Fail(v.err)
        ELSE IF v.err # NoErr
          THEN Fail(Wrap("unable to decode YAML sequence value", v.err))
        ELSE yamlSequenceLoop(node, i + 1, Append(s, v.val))

yamlSequence(node) == yamlSequenceLoop(node, 1, <<>>)

yamlDocument(node) ==
  IF Len(node.Content) # 1
    THEN Fail(<<"unexpected YAML Document node content length">>)
    ELSE yamlNode(node.Content[1])

yamlNode(root) ==
  CASE root.Kind = "DocumentNode" -> yamlDocument(root)
    [] root.Kind = "SequenceNode" -> yamlSequence(root)
    [] root.Kind = "MappingNode" -> yamlMapping(root)
    [] root.Kind = "ScalarNode" -> yamlScalar(root)
    [] root.Kind = "AliasNode" -> yamlNode(root.Alias[1])
    [] OTHER -> Fail(<<"unsupported YAML node type">>)

\* format handling, of the integers, only int, int64, uint and uint64
format_wideOnly(t) ==
  CASE t.type = "string" -> [val |-> t.str, err |-> NoErr]
    [] t.type \in {"uint", "uint64"} -> [val |-> FormatUint(t), err |-> NoErr]
    [] t.type \in {"int", "int64"} -> [val |-> FormatInt(t), err |-> NoErr]
    [] OTHER -> [val |-> <<>>, err |-> <<"unexpected map key type", t.type>>]

(* ------------------------------------------------------------------ *)
(* The walker on a node graph: nodes[id] is a node whose Content and   *)
(* Alias hold the ids of the nodes pointed at, so that an alias may    *)
(* point at a node that contains it                                    *)
(* ------------------------------------------------------------------ *)
\* the runtime's "goroutine stack exceeds limit": the program dies
StackOverflow == <<"fatal error: stack overflow">>

\* a panic or a fatal error: no caller gets a return value
IsFatal(e) == IsPanic(e) \/ e = StackOverflow

RECURSIVE yamlNodeG(_, _, _)
RECURSIVE yamlMappingLoopG(_, _, _, _, _)
RECURSIVE yamlSequenceLoopG(_, _, _, _, _)

\* the loop of yamlMapping on nodes[id], called at nesting depth
yamlMappingLoopG(nodes, id, depth, i, m) ==
  IF i > Len(nodes[id].Content) THEN Ok(MapSlice(m, FALSE))
  ELSE
    One({ IF k.err # NoErr
            THEN Fail(Wrap("unable to decode YAML map key", k.err))
          ELSE IF i + 1 > Len(nodes[id].Content)
            THEN Fail(PanicIndex)
          ELSE
            One({ IF IsFatal(v.err) THEN Fail(v.err)
                  ELSE IF v.err # NoErr
                    THEN Fail(Wrap("unable to process YAML map value for key", v.err))
                  ELSE yamlMappingLoopG(nodes, id, depth, i + 2,
                                        Append(m, MapItem(k.val, v.val))) :
                  v \in { yamlNodeG(nodes, nodes[id].Content[i + 1], depth + 1) } }) :
          k \in { yamlStringScalarC(nodes[nodes[id].Content[i]]) } })

\* the loop of yamlSequence on nodes[id]
yamlSequenceLoopG(nodes, id, depth, i, s) ==
  IF i > Len(nodes[id].Content) THEN Ok(List(s, FALSE))
  ELSE
    One({ IF IsFatal(v.err) THEN Fail(v.err)
          ELSE IF v.err # NoErr
            THEN Fail(Wrap("unable to decode YAML sequence value", v.err))
          ELSE yamlSequenceLoopG(nodes, id, depth, i + 1, Append(s, v.val)) :
          v \in { yamlNodeG(nodes, nodes[id].Content[i], depth + 1) } })

\* yamlNode(root) with root = &nodes[id], as the depth-th nested call of
\* yamlNode; a call nested deeper than the stack holds is fatal
yamlNodeG(nodes, id, depth) ==
  IF depth > MaxDepth THEN Fail(StackOverflow)
  ELSE
    CASE nodes[id].Kind = "DocumentNode" ->
           IF Len(nodes[id].Content) # 1
             THEN Fail(<<"unexpected YAML Document node content length">>)
             ELSE yamlNodeG(nodes, nodes[id].Content[1], depth + 1)
      [] nodes[id].Kind = "SequenceNode" -> yamlSequenceLoopG(nodes, id, depth, 1, <<>>)
      [] nodes[id].Kind = "MappingNode" -> yamlMappingLoopG(nodes, id, depth, 1, <<>>)
      [] nodes[id].Kind = "ScalarNode" -> yamlScalar(nodes[id])
      [] nodes[id].Kind = "AliasNode" -> yamlNodeG(nodes, nodes[id].Alias[1], depth + 1)
      [] OTHER -> Fail(<<"unsupported YAML node type">>)

\* the format closure of transformData: a map key as a string
format(t) ==
  CASE t.type = "string" -> [val |-> t.str, err |-> NoErr]
    [] t.type \in UnsignedTypes -> [val |-> FormatUint(t), err |-> NoErr]
    [] t.type \in SignedTypes -> [val |-> FormatInt(t), err |-> NoErr]
    [] OTHER -> [val |-> <<>>, err |-> <<"unexpected map key type", t.type>>]

\* a yaml.Node (or *yaml.Node) rather than another Go value
IsNode(input) == "Kind" \in DOMAIN input

RECURSIVE transformData(_)
RECURSIVE transformDataMapLoop(_, _, _)
RECURSIVE transformDataListLoop(_, _, _)

\* case map[interface{}]interface{}: the range over the map, o holding
\* the entries appended so far
transformDataMapLoop(in, i, o) ==
  IF i > Len(in) THEN Ok(MapSlice(o, FALSE))
  ELSE
    LET key == format(in[i].Key)
    IN  IF key.err # NoErr THEN Fail(key.err)
        ELSE
          LET v == transformData(in[i].Value)
          IN  IF v.err # NoErr THEN Fail(v.err)
              ELSE transformDataMapLoop(in, i + 1, Append(o, MapItem(key.val, v.val)))

\* case []interface{}
transformDataListLoop(in, i, o) ==
  IF i > Len(in) THEN Ok(List(o, FALSE))
  ELSE
    LET v == transformData(in[i])
    IN  IF v.err # NoErr THEN Fail(v.err)
        ELSE transformDataListLoop(in, i + 1, Append(o, v.val))

\* transformData
transformData(input) ==
  IF IsNode(input) THEN yamlNode(input)
  ELSE
    CASE input.type = "map[interface{}]interface{}" ->
           transformDataMapLoop(input.gpairs, 1, <<>>)
      [] input.type = "[]interface{}" -> transformDataListLoop(input.elems, 1, <<>>)
      [] OTHER -> Ok(input)

\* BytesToYAMLDoc checking only that the root is a one-child document
BytesToYAMLDoc_anyChild(document) ==
  IF document.Kind # "DocumentNode" \/ Len(document.Content) # 1
    THEN [val |-> <<>>, err |-> <<"only YAML documents that are objects are supported">>]
    ELSE [val |-> <<document>>, err |-> NoErr]

\* BytesToYAMLDoc after yaml.Unmarshal has filled `document`: the result's
\* val is the document pointer, kept as a one-element sequence
BytesToYAMLDoc(document) ==
  IF document.Kind # "DocumentNode"
       \/ Len(document.Content) # 1
       \/ document.Content[1].Kind # "MappingNode"
    THEN [val |-> <<>>, err |-> <<"only YAML documents that are objects are supported">>]
    ELSE [val |-> <<document>>, err |-> NoErr]

(* ------------------------------------------------------------------ *)
(* JSON bytes, as the sequence of their lexical tokens                *)
(* ------------------------------------------------------------------ *)
Tok(k, t) == [k |-> k, t |-> t]

DelimTok(c) == Tok("delim", <<c>>)

SepTok(c) == Tok("sep", <<c>>)

RECURSIVE WriteJSON(_)
RECURSIVE MarshalItems(_, _)
RECURSIVE WriteElems(_, _)

\* JSONMapItem.MarshalEasyJSON: the key, a colon, the value's encoding
JSONMapItem_MarshalEasyJSON(s) ==
  <<Tok("string", s.Key), SepTok(":")>> \o WriteJSON(s.Value)

\* the loop of JSONMapSlice.MarshalEasyJSON from index i
MarshalItems(s, i) ==
  IF i > Len(s) THEN <<>>
  ELSE JSONMapItem_MarshalEasyJSON(s[i])
         \o (IF i # Len(s) THEN <<SepTok(",")>> ELSE <<>>)
         \o MarshalItems(s, i + 1)

\* JSONMapSlice.MarshalEasyJSON writing a nil document as the null token
JSONMapSlice_MarshalEasyJSON_nullForNil(s) ==
  IF s.isnil THEN <<Tok("null", <<"n","u","l","l">>)>>
  ELSE <<DelimTok("{")>> \o MarshalItems(s.items, 1) \o <<DelimTok("}")>>

\* JSONMapSlice.MarshalEasyJSON
JSONMapSlice_MarshalEasyJSON(s) ==
  <<DelimTok("{")>> \o MarshalItems(s.items, 1) \o <<DelimTok("}")>>

\* JSONMapSlice.MarshalJSON
JSONMapSlice_MarshalJSON(s) == JSONMapSlice_MarshalEasyJSON(s)

WriteElems(e, i) ==
  IF i > Len(e) THEN <<>>
  ELSE WriteJSON(e[i])
         \o (IF i # Len(e) THEN <<SepTok(",")>> ELSE <<>>)
         \o WriteElems(e, i + 1)

\* WriteJSON: an ordered document through its own marshaller, a list
\* element-wise (a nil list as an empty one), a scalar as its JSON token
WriteJSON(data) ==
  CASE data.type = "JSONMapSlice" -> JSONMapSlice_MarshalEasyJSON(data)
    [] data.type = "[]interface{}" ->
         <<DelimTok("[")>> \o WriteElems(data.elems, 1) \o <<DelimTok("]")>>
    [] data.type = "string" -> <<Tok("string", data.str)>>
    [] data.type \in SignedTypes -> <<Tok("number", FormatInt(data))>>
    [] data.type \in UnsignedTypes -> <<Tok("number", FormatUint(data))>>
    [] data.type = "float64" -> <<Tok("number", FormatFloat(data))>>
    [] data.type = "bool" -> <<Tok("bool", FormatBool(data))>>
    [] data.type = "*interface{}" -> WriteJSON(data.elem)
    [] data.type = "JSONSliceItem" ->
         <<DelimTok("{"), Tok("string", <<"V","a","l","u","e">>), SepTok(":")>>
           \o WriteJSON(data.Value) \o <<DelimTok("}")>>
    [] OTHER -> <<Tok("null", <<"n","u","l","l">>)>>

\* YAMLToJSON on a yaml.Node: the walk, then WriteJSON of its result
YAMLToJSON(data) ==
  LET jm == transformData(data)
  IN  IF jm.err # NoErr THEN [val |-> <<>>, err |-> jm.err]
      ELSE [val |-> WriteJSON(jm.val), err |-> NoErr]

(* ------------------------------------------------------------------ *)
(* jlexer.Lexer, token by token                                       *)
(* ------------------------------------------------------------------ *)
\* jlexer.Lexer{Data: data}
Lexer(data) ==
  [Data |-> data, pos |-> 1, kind |-> "undef", delimValue |-> "",
   byteValue |-> <<>>, firstElement |-> FALSE, wantSep |-> "",
   fatalError |-> NoErr]

Lexer_Ok(r) == r.fatalError = NoErr

\* errSyntax / errInvalidToken: the first error is kept
Lexer_err(r, e) ==
  IF r.fatalError # NoErr THEN r ELSE [r EXCEPT !.fatalError = <<e>>]

Lexer_consume(r) == [r EXCEPT !.kind = "undef", !.delimValue = ""]

RECURSIVE Lexer_FetchToken(_)
\* FetchToken: a wanted separator is skipped, any other token becomes the
\* current one; a failure leaves no current token
Lexer_FetchToken(r) ==
  IF r.pos > Len(r.Data)
    THEN [r EXCEPT !.kind = "undef", !.fatalError = <<"EOF">>]
  ELSE
    LET c == r.Data[r.pos]
        u == [r EXCEPT !.kind = "undef"]
    IN  CASE c.k = "sep" ->
               IF r.wantSep = c.t[1]
                 THEN Lexer_FetchToken([u EXCEPT !.pos = r.pos + 1, !.wantSep = ""])
                 ELSE Lexer_err(u, "syntax error")
          [] c.k = "delim" /\ c.t[1] \in {"{", "["} ->
               IF r.wantSep # ""
                 THEN Lexer_err(u, "syntax error")
                 ELSE [r EXCEPT !.kind = "delim", !.delimValue = c.t[1],
                                !.firstElement = TRUE, !.pos = r.pos + 1]
          [] c.k = "delim" /\ c.t[1] \in {"}", "]"} ->
               IF ~r.firstElement /\ r.wantSep # ","
                 THEN Lexer_err(u, "syntax error")
                 ELSE [r EXCEPT !.kind = "delim", !.delimValue = c.t[1],
                                !.wantSep = "", !.pos = r.pos + 1]
          [] OTHER ->
               IF r.wantSep # ""
                 THEN Lexer_err(u, "syntax error")
                 ELSE [r EXCEPT !.kind = c.k, !.byteValue = c.t,
                                !.pos = r.pos + 1]

\* the "if r.token.kind == tokenUndef && r.Ok() { r.FetchToken() }" prologue
Lexer_peek(r) ==
  IF r.kind = "undef" /\ Lexer_Ok(r) THEN Lexer_FetchToken(r) ELSE r

\* IsDelim: [l: the lexer afterwards, r: the answer]
Lexer_IsDelim(r, c) ==
  LET p == Lexer_peek(r)
  IN  [l |-> p, r |-> (~Lexer_Ok(p) \/ p.delimValue = c)]

\* IsNull
Lexer_IsNull(r) ==
  LET p == Lexer_peek(r)
  IN  [l |-> p, r |-> (Lexer_Ok(p) /\ p.kind = "null")]

\* Delim: consumes the token and checks that it is the delimiter c
Lexer_Delim(r, c) ==
  LET p == Lexer_peek(r)
  IN  IF ~Lexer_Ok(p) \/ p.delimValue # c
        THEN Lexer_err(Lexer_consume(p), "expected delimiter")
        ELSE Lexer_consume(p)

\* UnsafeString: [l, r: the string read, "" on failure]
Lexer_UnsafeString(r) ==
  LET p == Lexer_peek(r)
  IN  IF ~Lexer_Ok(p) \/ p.kind # "string"
        THEN [l |-> Lexer_err(p, "expected string"), r |-> <<>>]
        ELSE [l |-> Lexer_consume(p), r |-> p.byteValue]

Lexer_WantColon(r) == [r EXCEPT !.wantSep = ":"]

Lexer_WantComma(r) == [r EXCEPT !.wantSep = ",", !.firstElement = FALSE]

\* Interface on a scalar token: every number is read with Float64()
Lexer_Interface(r) ==
  LET p == Lexer_peek(r)
  IN  IF ~Lexer_Ok(p) THEN [l |-> p, r |-> Nil]
      ELSE CASE p.kind = "string" ->
                  [l |-> Lexer_consume(p), r |-> String(p.byteValue)]
             [] p.kind = "number" ->
                  LET f == ParseFloat(p.byteValue)
                  IN  IF f.err # NoErr
                        THEN [l |-> Lexer_err(Lexer_consume(p), "invalid number"),
                              r |-> Nil]
                        ELSE [l |-> Lexer_consume(p), r |-> f.val]
             [] p.kind = "bool" ->
                  [l |-> Lexer_consume(p), r |-> Bool(p.byteValue = <<"t","r","u","e">>)]
             [] p.kind = "null" -> [l |-> Lexer_consume(p), r |-> Nil]
             [] OTHER -> [l |-> Lexer_err(p, "syntax error"), r |-> Nil]

(* ------------------------------------------------------------------ *)
(* Decoding: JSONMapSlice / JSONMapItem / JSONSliceItem               *)
(* ------------------------------------------------------------------ *)
RECURSIVE JSONMapSlice_unmarshalEasyJSONWithHooks(_, _)
RECURSIVE JSONMapSlice_loop(_, _)
RECURSIVE JSONMapItem_unmarshalEasyJSONWithHooks(_, _)
RECURSIVE JSONSliceItem_unmarshalEasyJSONWithHooks(_)
RECURSIVE JSONSliceItem_loop(_, _)
RECURSIVE JSONValue(_)

\* the "for !in.IsDelim('}')" loop: each pass decodes into a fresh item
\* and appends it
JSONMapSlice_loop(in, result) ==
  One({ IF d.r THEN [l |-> d.l, items |-> result]
        ELSE One({ JSONMapSlice_loop(mi.l, Append(result, mi.s)) :
                   mi \in { JSONMapItem_unmarshalEasyJSONWithHooks(
                              MapItem(<<>>, Nil), d.l) } }) :
        d \in { Lexer_IsDelim(in, "}") } })

\* (s *JSONMapSlice).unmarshalEasyJSONWithHooks: [l, s: *s afterwards]
JSONMapSlice_unmarshalEasyJSONWithHooks(s, in) ==
  One({ IF n.r THEN [l |-> Lexer_consume(n.l), s |-> s]
        ELSE One({ [l |-> body.l, s |-> MapSlice(body.items, body.items = <<>>)] :
                   body \in { One({ JSONMapSlice_loop(open, <<>>) :
                                    open \in { Lexer_Delim(n.l, "{") } }) } }) :
        n \in { Lexer_IsNull(in) } })

\* the value after a colon or inside an array: an object, an array or a
\* scalar; [l, r: the value read]
JSONValue(in) ==
  One({ IF o.r
          THEN One({ [l |-> inner.l, r |-> inner.s] :
                     inner \in { JSONMapSlice_unmarshalEasyJSONWithHooks(
                                   MapSlice(<<>>, TRUE), o.l) } })
          ELSE One({ IF a.r THEN JSONSliceItem_unmarshalEasyJSONWithHooks(a.l)
                     ELSE Lexer_Interface(a.l) :
                     a \in { Lexer_IsDelim(o.l, "[") } }) :
        o \in { Lexer_IsDelim(in, "{") } })

\* the array loop: every element is read, then a comma is wanted
JSONSliceItem_loop(in, elems) ==
  One({ IF d.r THEN [l |-> d.l, elems |-> elems]
        ELSE One({ JSONSliceItem_loop(Lexer_WantComma(v.l), Append(elems, v.r)) :
                   v \in { JSONValue(d.l) } }) :
        d \in { Lexer_IsDelim(in, "]") } })

\* (s *JSONSliceItem).unmarshalEasyJSONWithHooks: [l, r: the item read]
JSONSliceItem_unmarshalEasyJSONWithHooks(in) ==
  One({ [l |-> Lexer_Delim(body.l, "]"),
         r |-> SliceItem(List(body.elems, body.elems = <<>>))] :
        body \in { One({ JSONSliceItem_loop(open, <<>>) :
                         open \in { Lexer_Delim(in, "[") } }) } })

\* (s *JSONMapItem).unmarshalEasyJSONWithHooks: [l, s: *s afterwards]
JSONMapItem_unmarshalEasyJSONWithHooks(s, in) ==
  One({ One({ IF ~Lexer_Ok(v.l)
                THEN [l |-> Lexer_WantComma(v.l), s |-> s]
                ELSE [l |-> Lexer_WantComma(v.l), s |-> MapItem(key.r, v.r)] :
              v \in { One({ JSONValue(colon) :
                            colon \in { Lexer_WantColon(key.l) } }) } }) :
        key \in { Lexer_UnsafeString(in) } })

\* (s *JSONMapSlice).UnmarshalJSON(data): [val: *s afterwards, err]
JSONMapSlice_UnmarshalJSON(s, data) ==
  LET r == JSONMapSlice_unmarshalEasyJSONWithHooks(s, Lexer(data))
  IN  [val |-> r.s, err |-> r.l.fatalError]

(* ------------------------------------------------------------------ *)
(* The reverse converter: json2yaml and MarshalYAML                   *)
(* ------------------------------------------------------------------ *)
\* isNil: the untyped nil, or a nil pointer, map, slice or channel
isNil(input) ==
  CASE input.type = "nil" -> TRUE
    [] input.type = "JSONMapSlice" -> input.isnil
    [] input.type = "[]interface{}" -> input.lnil
    [] input.type = "map[string]interface{}" -> input.mnil
    [] input.type = "map[interface{}]interface{}" -> input.gnil
    [] OTHER -> FALSE

RECURSIVE json2yaml(_)
RECURSIVE json2yamlMapSliceLoop(_, _, _)
RECURSIVE json2yamlListLoop(_, _, _)
RECURSIVE json2yamlListLoop_skipBad(_, _, _)
RECURSIVE json2yamlMapLoop(_, _, _, _)
RECURSIVE MapKeys(_)

\* "for k := range val { keys = append(keys, k) }"
MapKeys(pairs) ==
  IF pairs = <<>> THEN <<>> ELSE <<Head(pairs).Key>> \o MapKeys(Tail(pairs))

\* case map[string]interface{}: the loop over the sorted keys
json2yamlMapLoop(val, keys, i, content) ==
  IF i > Len(keys) THEN Ok(Mapping(content))
  ELSE
    LET childNode == json2yaml(MapIndex(val, keys[i]))
    IN  IF childNode.err # NoErr THEN Fail(childNode.err)
        ELSE json2yamlMapLoop(val, keys, i + 1,
               content \o <<Scalar(yamlStringScalar, keys[i]), childNode.val>>)

\* case JSONMapSlice: the child is converted from &val[i].Value, a
\* pointer to the entry's interface{} field
json2yamlMapSliceLoop(val, i, content) ==
  IF i > Len(val) THEN Ok(Mapping(content))
  ELSE
    LET childNode == json2yaml(PtrTo(val[i].Value))
    IN  IF childNode.err # NoErr THEN Fail(childNode.err)
        ELSE json2yamlMapSliceLoop(val, i + 1,
               content \o <<Scalar(yamlStringScalar, val[i].Key), childNode.val>>)

\* case []interface{} leaving out the elements that do not convert
json2yamlListLoop_skipBad(val, i, content) ==
  IF i > Len(val) THEN Ok(Sequence(content))
  ELSE
    LET childNode == json2yaml(val[i])
    IN  IF childNode.err # NoErr THEN json2yamlListLoop_skipBad(val, i + 1, content)
        ELSE json2yamlListLoop_skipBad(val, i + 1, Append(content, childNode.val))

\* case []interface{}
json2yamlListLoop(val, i, content) ==
  IF i > Len(val) THEN Ok(Sequence(content))
  ELSE
    LET childNode == json2yaml(val[i])
    IN  IF childNode.err # NoErr THEN Fail(childNode.err)
        ELSE json2yamlListLoop(val, i + 1, Append(content, childNode.val))

\* json2yaml with the unsigned case missing and nil rendered untagged as "nil"
json2yaml_noUint(item) ==
  IF isNil(item) THEN Ok(Scalar("", <<"n","i","l">>))
  ELSE
    CASE item.type = "JSONMapSlice" -> json2yamlMapSliceLoop(item.items, 1, <<>>)
      [] item.type = "map[string]interface{}" ->
           json2yamlMapLoop(item.pairs, sortStrings(MapKeys(item.pairs)), 1, <<>>)
      [] item.type = "[]interface{}" -> json2yamlListLoop(item.elems, 1, <<>>)
      [] item.type = "string" -> Ok(Scalar(yamlStringScalar, item.str))
      [] item.type = "float64" -> Ok(Scalar(yamlFloatScalar, FormatFloat(item)))
      [] item.type = "int64" -> Ok(Scalar(yamlIntScalar, FormatInt(item)))
      [] item.type = "bool" -> Ok(Scalar(yamlBoolScalar, FormatBool(item)))
      [] OTHER -> Fail(<<"unhandled type", item.type>>)

json2yaml(item) ==
  IF isNil(item) THEN Ok(Scalar("", <<"n","u","l","l">>))
  ELSE
    CASE item.type = "JSONMapSlice" -> json2yamlMapSliceLoop(item.items, 1, <<>>)
      [] item.type = "map[string]interface{}" ->
           json2yamlMapLoop(item.pairs, sortStrings(MapKeys(item.pairs)), 1, <<>>)
      [] item.type = "[]interface{}" -> json2yamlListLoop(item.elems, 1, <<>>)
      [] item.type = "string" -> Ok(Scalar(yamlStringScalar, item.str))
      [] item.type = "float64" -> Ok(Scalar(yamlFloatScalar, FormatFloat(item)))
      [] item.type = "int64" -> Ok(Scalar(yamlIntScalar, FormatInt(item)))
      [] item.type = "uint64" -> Ok(Scalar(yamlIntScalar, FormatUint(item)))
      [] item.type = "bool" -> Ok(Scalar(yamlBoolScalar, FormatBool(item)))
      [] OTHER -> Fail(<<"unhandled type", item.type>>)

RECURSIVE MarshalYAMLLoop(_, _, _)
\* the loop of JSONMapSlice.MarshalYAML: each entry's value is converted
\* from item.Value itself
MarshalYAMLLoop(s, i, nodes) ==
  IF i > Len(s) THEN Ok(Document(<<Mapping(nodes)>>))
  ELSE
    LET nn == json2yaml(s[i].Value)
    IN  IF nn.err # NoErr THEN Fail(nn.err)
        ELSE MarshalYAMLLoop(s, i + 1,
               nodes \o <<Scalar(yamlStringScalar, s[i].Key), nn.val>>)

\* JSONMapSlice.MarshalYAML: val is the document node handed to yaml.Marshal
JSONMapSlice_MarshalYAML(s) == MarshalYAMLLoop(s.items, 1, <<>>)

(* ------------------------------------------------------------------ *)
(* Document processors: WithDocProcessor, ApplyTransforms, YAMLDoc    *)
(* ------------------------------------------------------------------ *)
\* a processor's document with the pair k: 1 appended to its root mapping
AppendPair(doc, k) ==
  IF IsNode(doc) /\ doc.Kind = "DocumentNode" /\ Len(doc.Content) = 1
       /\ doc.Content[1].Kind = "MappingNode"
    THEN Document(<<Mapping(doc.Content[1].Content
                             \o <<Scalar("!!str", <<k>>), Scalar("!!int", <<"1">>)>>)>>)
    ELSE doc

\* the processor WithXOrderProcessor(true) registers
XOrderProcessor(doc) ==
  IF IsNode(doc) \/ doc.type = "JSONMapSlice" THEN Ok(Nil)
  ELSE Fail(<<"XOrder processor only support yamlv3.Node and swag.JSONMapSlice input documents",
              doc.type>>)

\* the DocProcessor functions registered in the explored runs: two that
\* rewrite the document, one that fails while returning a document, and
\* the XOrder processor
ProcessorNames == {"addX", "addY", "fail", "xorder"}

\* process(doc): the call of the processor named p
Process(p, doc) ==
  CASE p = "addX" -> Ok(AppendPair(doc, "x"))
    [] p = "addY" -> Ok(AppendPair(doc, "y"))
    [] p = "fail" -> [val |-> AppendPair(doc, "b"), err |-> <<"processor failed">>]
    [] OTHER -> XOrderProcessor(doc)

\* WithDocProcessor(processor) applied to the options o
WithDocProcessor(o, processor) == Append(o, processor)

RECURSIVE ApplyLoop(_, _, _, _)
\* the loop of ApplyTransforms from index i; calls lists the processors
\* invoked so far
ApplyLoop(processors, i, doc, calls) ==
  IF i > Len(processors) THEN [val |-> doc, err |-> NoErr, calls |-> calls]
  ELSE
    LET r == Process(processors[i], doc)
    IN  IF r.err # NoErr
          THEN [val |-> Nil, err |-> r.err, calls |-> Append(calls, processors[i])]
          ELSE ApplyLoop(processors, i + 1, r.val, Append(calls, processors[i]))

RECURSIVE Reverse(_)
Reverse(q) == IF q = <<>> THEN <<>> ELSE Append(Reverse(Tail(q)), Head(q))

\* ApplyTransforms running the processors last-registered first
ApplyTransforms_lastFirst(processors, inputDoc) ==
  ApplyLoop(Reverse(processors), 1, inputDoc, <<>>)

RECURSIVE KeepGoingLoop(_, _, _, _, _)
KeepGoingLoop(processors, i, doc, calls, err) ==
  IF i > Len(processors)
    THEN [val |-> IF err = NoErr THEN doc ELSE Nil, err |-> err, calls |-> calls]
  ELSE
    LET r == Process(processors[i], doc)
    IN  KeepGoingLoop(processors, i + 1, r.val, Append(calls, processors[i]),
                      IF err = NoErr THEN r.err ELSE err)

\* ApplyTransforms running every processor and reporting the first error
ApplyTransforms_keepGoing(processors, inputDoc) ==
  KeepGoingLoop(processors, 1, inputDoc, <<>>, NoErr)

\* (o docOptions).ApplyTransforms(inputDoc): [val, err, calls]
ApplyTransforms(processors, inputDoc) == ApplyLoop(processors, 1, inputDoc, <<>>)

\* YAMLDoc, from the point where the file's bytes are parsed into document:
\* [loaded: what YAMLData returned, applied: what ApplyTransforms returned,
\*  raw: the JSON returned and the error]
YAMLDoc(document, processors) ==
  LET yamlDoc == BytesToYAMLDoc(document)
  IN  IF yamlDoc.err # NoErr
        THEN [loaded |-> yamlDoc,
              applied |-> [val |-> Nil, err |-> NoErr, calls |-> <<>>],
              raw |-> [val |-> <<>>, err |-> yamlDoc.err]]
      ELSE
        LET t == ApplyTransforms(processors, yamlDoc.val[1])
        IN  [loaded |-> yamlDoc,
             applied |-> t,
             raw |-> IF t.err # NoErr THEN [val |-> <<>>, err |-> t.err]
                     ELSE YAMLToJSON(t.val)]

(* ------------------------------------------------------------------ *)
(* util.go: JoinByFormat and SplitByFormat                            *)
(* ------------------------------------------------------------------ *)
\* a []string; snil tells the nil slice from an empty one
StrSlice(strs, isnil) == [strs |-> strs, snil |-> isnil]

\* the separator the switch on format selects, "" for multi
Separator(fmt) ==
  CASE fmt = "ssv" -> " "
    [] fmt = "tsv" -> "\t"
    [] fmt = "pipes" -> "|"
    [] fmt = "multi" -> ""
    [] OTHER -> ","

RECURSIVE StringsJoin(_, _)
\* strings.Join(elems, sep)
StringsJoin(elems, sep) ==
  IF elems = <<>> THEN <<>>
  ELSE IF Len(elems) = 1 THEN elems[1]
  ELSE elems[1] \o <<sep>> \o StringsJoin(Tail(elems), sep)

RECURSIVE StringsSplit(_, _, _)
\* strings.Split(s, sep) for a one-byte sep: cur is the piece being read
StringsSplit(s, sep, cur) ==
  IF s = <<>> THEN <<cur>>
  ELSE IF Head(s) = sep THEN <<cur>> \o StringsSplit(Tail(s), sep, <<>>)
  ELSE StringsSplit(Tail(s), sep, Append(cur, Head(s)))

WhiteSpace == {" ", "\t", "\n", "\r"}

RECURSIVE TrimLeft(_)
TrimLeft(s) ==
  IF s # <<>> /\ Head(s) \in WhiteSpace THEN TrimLeft(Tail(s)) ELSE s

RECURSIVE TrimRight(_)
TrimRight(s) ==
  IF s # <<>> /\ s[Len(s)] \in WhiteSpace
    THEN TrimRight(SubSeq(s, 1, Len(s) - 1)) ELSE s

\* strings.TrimSpace
TrimSpace(s) == TrimRight(TrimLeft(s))

\* JoinByFormat joining with a comma whatever the format is
JoinByFormat_alwaysComma(data, fmt) ==
  IF Len(data.strs) = 0 THEN data
  ELSE IF fmt = "multi" THEN data
  ELSE StrSlice(<<StringsJoin(data.strs, ",")>>, FALSE)

\* JoinByFormat
JoinByFormat(data, fmt) ==
  IF Len(data.strs) = 0 THEN data
  ELSE IF fmt = "multi" THEN data
  ELSE StrSlice(<<StringsJoin(data.strs, Separator(fmt))>>, FALSE)

RECURSIVE SplitLoop(_, _)
\* the loop of SplitByFormat over the pieces: the trimmed non-empty ones
SplitLoop(pieces, result) ==
  IF pieces = <<>> THEN result
  ELSE
    LET ts == TrimSpace(Head(pieces))
    IN  SplitLoop(Tail(pieces), IF ts # <<>> THEN Append(result, ts) ELSE result)

\* SplitByFormat
SplitByFormat(data, fmt) ==
  IF data = <<>> THEN StrSlice(<<>>, TRUE)
  ELSE IF fmt = "multi" THEN StrSlice(<<>>, TRUE)
  ELSE
    LET result == SplitLoop(StringsSplit(data, Separator(fmt), <<>>), <<>>)
    IN  StrSlice(result, result = <<>>)

(* ------------------------------------------------------------------ *)
(* The explored inputs                                                *)
(* ------------------------------------------------------------------ *)
t42 == <<"4","2">>

t42p0 == <<"4","2",".","0">>

t4p5 == <<"4",".","5">>

tTrue == <<"t","r","u","e">>

tFalse == <<"f","a","l","s","e">>

tBig == MinInt64Magnitude

ScalarTexts ==
  { t42, t42p0, t4p5, tTrue, tFalse, <<"0">>, <<>>, <<"a">>, tBig,
    <<"-","7">>, <<"0","7">>, <<"n","u","l","l">> }

ScalarTags ==
  { "!!str", "!!int", "!!bool", "!!float", "!!timestamp", "!!null",
    "!!binary", "!custom", yamlIntScalar, yamlNull, "" }

ScalarNodes == { Scalar(tag, txt) : tag \in ScalarTags, txt \in ScalarTexts }

RECURSIVE Flatten(_, _)
\* the Content of a mapping holding the pairs ps[1..k]
Flatten(ps, k) ==
  IF k = 0 THEN <<>> ELSE Flatten(ps, k - 1) \o <<ps[k][1], ps[k][2]>>

RECURSIVE ToSeq(_, _)
ToSeq(f, k) == IF k = 0 THEN <<>> ELSE Append(ToSeq(f, k - 1), f[k])

TuplesUpTo(S, n) == UNION { [1..k -> S] : k \in 0..n }

InnerMapping == Mapping(<<Scalar("!!str", <<"b">>), Scalar("!!int", <<"1">>)>>)

DeepMapping == Mapping(<<Scalar("!!str", <<"a">>), InnerMapping>>)

GoodKeyNodes == { Scalar("!!str", <<"a">>), Scalar("!!int", <<"7">>) }

BadKeyNodes ==
  { Scalar("!!bool", tTrue), Scalar("!!null", <<>>),
    Scalar("!!timestamp", <<"2","0","0","1">>), Scalar("!!binary", <<"a">>),
    Mapping(<<>>), Sequence(<<>>), AliasTo(Scalar("!!str", <<"a">>)) }

\* a mapping whose value is a sequence failing on its second element
FailingDeep ==
  Mapping(<<Scalar("!!str", <<"a">>),
            Sequence(<<Scalar("!!int", t42), Scalar("!!bool", <<"a">>)>>)>>)

ValueNodes ==
  { Scalar("!!int", t42), Scalar("!!float", t42p0), Scalar("!!null", tFalse),
    Scalar("!!bool", <<"a">>), InnerMapping, DeepMapping, FailingDeep,
    Sequence(<<Scalar("!!str", <<"a">>)>>),
    AliasTo(Scalar("!!bool", tTrue)) }

NodePairs ==
  (GoodKeyNodes \X ValueNodes)
    \cup { <<Scalar("!!float", t4p5), Scalar("!!str", <<"a">>)>> }
    \cup { <<k, Scalar("!!int", t42)>> : k \in BadKeyNodes }

MappingNodes ==
  { Mapping(Flatten(ps, Len(ps))) : ps \in TuplesUpTo(NodePairs, MaxPairs) }

SeqElemNodes ==
  { Scalar("!!int", t42), Scalar("!!str", <<"a">>), Scalar("!!float", <<"x">>),
    InnerMapping, FailingDeep }

SequenceNodes ==
  { Sequence(ToSeq(es, Len(es))) : es \in TuplesUpTo(SeqElemNodes, MaxSeqLen) }

\* a mapping whose last key has no value
OddMapping ==
  Mapping(<<Scalar("!!str", <<"a">>), Scalar("!!int", t42), Scalar("!!str", <<"b">>)>>)

\* mappings with integer-tagged keys: 7 and 07 in one mapping, and a key
\* whose text is no integer
IntKeyMappings ==
  { Mapping(<<Scalar("!!int", <<"7">>), Scalar("!!str", <<"a">>),
              Scalar("!!int", <<"0","7">>), Scalar("!!str", <<"b">>)>>),
    Mapping(<<Scalar("!!int", <<"a">>), Scalar("!!int", t42)>>),
    Mapping(<<Scalar("!!float", <<"a">>), Scalar("!!int", t42)>>) }

\* what a caller may hand to BytesToYAMLDoc (once parsed) and to YAMLToJSON
Documents ==
  { Document(<<m>>) : m \in MappingNodes }
    \cup { Document(<<q>>) : q \in SequenceNodes }
    \cup SequenceNodes
    \cup ScalarNodes
    \cup { Document(<<n>>) : n \in { Scalar("!!int", t42), Scalar("!!str", <<"a">>) } }
    \cup { Document(<<>>), Document(<<InnerMapping, InnerMapping>>),
           InnerMapping, DeepMapping, OddMapping, Document(<<OddMapping>>),
           Sequence(<<Scalar("!!int", t42), Scalar("!!bool", <<"a">>)>>),
           ZeroNode, AliasTo(InnerMapping) }
    \cup IntKeyMappings

ItemScalars ==
  { String(<<"a">>), Int64(FALSE, t42), Int64(TRUE, <<"7">>),
    Uint64(MaxUint64Text), Float64(FALSE, t42, <<>>),
    Float64(FALSE, <<"4">>, <<"5">>), Bool(TRUE), Bool(FALSE), Nil }

InnerSlice == MapSlice(<<MapItem(<<"b">>, Int64(FALSE, <<"1">>))>>, FALSE)

\* a nested document holding a nil list
InnerNilSlice == MapSlice(<<MapItem(<<"b">>, List(<<>>, TRUE))>>, FALSE)

EntryValues ==
  { String(<<"a">>), Int64(FALSE, t42), Float64(FALSE, t42, <<>>), Bool(TRUE),
    Nil, InnerSlice, MapSlice(<<>>, FALSE),
    List(<<Int64(FALSE, <<"1">>)>>, FALSE),
    MapSlice(<<>>, TRUE), List(<<>>, TRUE), InnerNilSlice }

EntrySet == { MapItem(k, v) : k \in { <<"a">>, <<"b">> }, v \in EntryValues }

MapSlices ==
  { MapSlice(ToSeq(es, Len(es)), FALSE) : es \in TuplesUpTo(EntrySet, MaxPairs) }

ListElems == { Int64(FALSE, t42), String(<<"a">>), InnerSlice }

Lists ==
  { List(ToSeq(es, Len(es)), FALSE) : es \in TuplesUpTo(ListElems, MaxSeqLen) }

\* values of unsupported types
Unsupported ==
  { GoInt(FALSE, <<"7">>), Float32(FALSE, <<"4">>, <<"5">>), Bytes(<<"a">>),
    SliceItem(Nil) }

InnerMap == StringMap(<<MapItem(<<"b">>, Int64(FALSE, <<"1">>))>>, FALSE)

MapKeyTexts == { <<"a">>, <<"b">>, <<"9">>, <<"1","0">> }

MapValues ==
  { Int64(FALSE, t42), String(<<"a">>), InnerMap, GoInt(FALSE, <<"7">>) }

MapEntrySet == { MapItem(k, v) : k \in MapKeyTexts, v \in MapValues }

DistinctKeys(pairs) ==
  \A i, j \in 1..Len(pairs) : pairs[i].Key = pairs[j].Key => i = j

\* maps of up to MaxPairs entries, each in every order a range may yield
StringMaps ==
  { StringMap(ToSeq(es, Len(es)), FALSE) :
      es \in { f \in TuplesUpTo(MapEntrySet, MaxPairs) : DistinctKeys(f) } }

\* unsupported values nested in lists and maps
NestedUnsupported ==
  { List(<<u>>, FALSE) : u \in Unsupported }
    \cup { List(<<Int64(FALSE, t42), u>>, FALSE) : u \in Unsupported }
    \cup { List(<<List(<<String(<<"a">>), u>>, FALSE)>>, FALSE) : u \in Unsupported }
    \cup { StringMap(<<MapItem(<<"a">>, List(<<u>>, FALSE))>>, FALSE) : u \in Unsupported }
    \cup { List(<<StringMap(<<MapItem(<<"a">>, Int64(FALSE, t42)),
                             MapItem(<<"b">>, u)>>, FALSE)>>, FALSE) : u \in Unsupported }

\* what a caller may hand to json2yaml, MarshalJSON and MarshalYAML
Items ==
  MapSlices \cup Lists \cup ItemScalars \cup StringMaps
    \cup Unsupported \cup NestedUnsupported
    \cup { MapSlice(<<>>, TRUE), List(<<>>, TRUE), StringMap(<<>>, TRUE) }

\* map keys that format turns into a string
GoodGenericKeys ==
  { String(<<"7">>), String(<<"a">>), Signed("int8", TRUE, <<"7">>),
    Unsigned("uint64", MaxUint64Text) }
    \cup { Signed(t, FALSE, <<"7">>) : t \in SignedTypes }
    \cup { Unsigned(t, <<"7">>) : t \in UnsignedTypes }

\* map keys of the other types: a float, a bool, nil, an array
BadGenericKeys ==
  { Float64(FALSE, t42, <<>>), Bool(TRUE), Nil,
    IntArray(<<Signed("int", FALSE, <<"1">>), Signed("int", FALSE, <<"2">>)>>) }

InnerGeneric ==
  GenericMap(<<MapItem(Signed("int", FALSE, <<"7">>), String(<<"a">>))>>, FALSE)

BadInnerGeneric ==
  GenericMap(<<MapItem(Bool(TRUE), Int64(FALSE, <<"1">>))>>, FALSE)

GenericValues ==
  { Int64(FALSE, t42), String(<<"a">>), InnerGeneric, BadInnerGeneric,
    List(<<InnerGeneric>>, FALSE), List(<<Int64(FALSE, t42), BadInnerGeneric>>, FALSE) }

\* the entries of the maps with several keys
GenericEntrySet ==
  { MapItem(k, v) :
      k \in { String(<<"7">>), Signed("int", FALSE, <<"7">>), Unsigned("uint8", <<"7">>),
               String(<<"a">>), Bool(TRUE) },
      v \in { Int64(FALSE, t42), String(<<"a">>), BadInnerGeneric } }

\* the values handed to YAMLToJSON that are no yaml.Node: generic maps with
\* one entry of every key type, generic maps of up to MaxPairs entries in
\* every iteration order, lists of them, and a nil map
GenericInputs ==
  { GenericMap(<<MapItem(k, v)>>, FALSE) :
      k \in GoodGenericKeys \cup BadGenericKeys, v \in GenericValues }
    \cup { GenericMap(ToSeq(es, Len(es)), FALSE) :
             es \in { f \in TuplesUpTo(GenericEntrySet, MaxPairs) : DistinctKeys(f) } }
    \cup { List(<<v>>, FALSE) : v \in GenericValues }
    \cup { GenericMap(<<>>, TRUE), List(<<>>, TRUE), Nil, InnerSlice }

\* the documents YAMLDoc loads in the explored runs
PipelineDocs ==
  { Document(<<InnerMapping>>), Document(<<Mapping(<<>>)>>),
    Document(<<Mapping(<<Scalar("!!str", <<"a">>), Scalar("!!bool", <<"a">>)>>)>>),
    Document(<<Sequence(<<>>)>>) }

\* node graphs, the root being node 1: "&x {a: *x}" under its document, a
\* sequence holding an alias to itself, an alias to itself, a mapping and
\* a sequence holding aliases to each other, and two graphs without cycle
NodeGraphs ==
  { << Node("DocumentNode", "", <<>>, <<2>>, <<>>),
       Node("MappingNode", "", <<>>, <<3, 4>>, <<>>),
       Scalar("!!str", <<"a">>),
       Node("AliasNode", "", <<>>, <<>>, <<2>>) >>,
    << Node("SequenceNode", "", <<>>, <<2>>, <<>>),
       Node("AliasNode", "", <<>>, <<>>, <<1>>) >>,
    << Node("AliasNode", "", <<>>, <<>>, <<1>>) >>,
    << Node("MappingNode", "", <<>>, <<2, 3>>, <<>>),
       Scalar("!!str", <<"a">>),
       Node("AliasNode", "", <<>>, <<>>, <<4>>),
       Node("SequenceNode", "", <<>>, <<5>>, <<>>),
       Node("AliasNode", "", <<>>, <<>>, <<1>>) >>,
    << Node("DocumentNode", "", <<>>, <<2>>, <<>>),
       Node("MappingNode", "", <<>>, <<3, 4, 5, 6>>, <<>>),
       Scalar("!!str", <<"a">>),
       Scalar("!!int", t42),
       Scalar("!!str", <<"b">>),
       Node("AliasNode", "", <<>>, <<>>, <<4>>) >>,
    << Node("SequenceNode", "", <<>>, <<2, 2>>, <<>>),
       Node("SequenceNode", "", <<>>, <<3>>, <<>>),
       Scalar("!!bool", tTrue) >> }

Formats == {"csv", "pipes", "tsv", "ssv", "multi", "unknown"}

Tokens ==
  { <<"a">>, <<"b">>, <<"a", " ", "b">>, <<"a", ",", "b">>, <<"a", "|", "b">>,
    <<"a", "\t", "b">>, <<" ", "a">>, <<"a", "\t">>, <<>> }

\* the lists handed to JoinByFormat
TokenLists ==
  { StrSlice(ToSeq(ts, Len(ts)), FALSE) : ts \in TuplesUpTo(Tokens, MaxTokens) }
    \cup { StrSlice(<<>>, TRUE) }

(* ------------------------------------------------------------------ *)
(* The conversions as a state machine                                 *)
(* ------------------------------------------------------------------ *)
VARIABLES
  run,       \* "yaml": a forward conversion of document; "json": a reverse one of item
  pc,        \* the calls made so far
  document,  \* the parsed yaml.Node
  loaded,    \* what BytesToYAMLDoc returned
  item,      \* the Go value: given (json) or produced by the walk (yaml)
  raw,       \* what YAMLToJSON / MarshalJSON returned: JSON tokens and error
  decoded,   \* what UnmarshalJSON left in a fresh JSONMapSlice, and its error
  ynode,     \* what json2yaml(item) returned
  ydoc,      \* what item.MarshalYAML() built
  back,      \* what yamlNode returned on the node json2yaml built
  processors,  \* the docOptions: the processors registered, in order
  calls,     \* the processors ApplyTransforms invoked, in order
  applied,   \* what ApplyTransforms returned
  data,      \* the []string handed to JoinByFormat
  collectionFormat,  \* the format handed to JoinByFormat and SplitByFormat
  joined,    \* what JoinByFormat returned
  text,      \* the string handed to SplitByFormat
  split,     \* what SplitByFormat returned
  graph,     \* the node graph handed to yamlNode, its root being node 1
  again,     \* what a second YAMLToJSON on the same generic map returned
  receiver   \* the JSONMapSlice that UnmarshalJSON is called on

pipeVars == <<processors, calls, applied>>

utilVars == <<data, collectionFormat, joined, text, split>>

moreVars == <<graph, again, receiver>>

vars ==
  <<run, pc, document, loaded, item, raw, decoded, ynode, ydoc, back,
    pipeVars, utilVars, moreVars>>

NoDoc == [val |-> <<>>, err |-> NoErr]

NoNode == [val |-> Nil, err |-> NoErr]

NoStrings == StrSlice(<<>>, TRUE)

\* the receiver of a decode: a JSONMapSlice declared and not yet assigned
FreshSlice == MapSlice(<<>>, TRUE)

\* the bytes handed to UnmarshalJSON by a caller, as tokens: nothing,
\* {"a":1,"b" cut short, {"a" 1} without colon, {"a":1 "b":1} without
\* comma, {"a":} without value, [1], and the well-formed {"a":1} and null
DecodeInputs ==
  LET a   == Tok("string", <<"a">>)
      b   == Tok("string", <<"b">>)
      one == Tok("number", <<"1">>)
  IN  { <<>>,
        <<DelimTok("{"), a, SepTok(":"), one, SepTok(","), b>>,
        <<DelimTok("{"), a, one, DelimTok("}")>>,
        <<DelimTok("{"), a, SepTok(":"), one, b, SepTok(":"), one, DelimTok("}")>>,
        <<DelimTok("{"), a, SepTok(":"), DelimTok("}")>>,
        <<DelimTok("["), one, DelimTok("]")>>,
        <<DelimTok("{"), a, SepTok(":"), one, DelimTok("}")>>,
        <<Tok("null", <<"n","u","l","l">>)>> }

\* what the receiver of UnmarshalJSON holds before the call
Receivers == { FreshSlice, InnerSlice }

\* every order in which a range over the map may yield its entries
Orderings(pairs) ==
  { ToSeq(f, Len(pairs)) :
      f \in { g \in [1..Len(pairs) -> { pairs[i] : i \in 1..Len(pairs) }] :
                \A i, j \in 1..Len(pairs) : g[i] = g[j] => i = j } }

\* a run is one of: "yaml", the forward conversion of a node; "generic",
\* YAMLToJSON on a value that is no node (kept in document); "json", the
\* reverse conversion of item; "doc", YAMLDoc with registered processors;
\* "util", JoinByFormat then SplitByFormat; "graph", yamlNode on a node
\* graph; "decode", UnmarshalJSON of given bytes into a given receiver
Init ==
  /\ pc = "start"
  /\ \/ /\ run = "yaml" /\ document \in Documents /\ item = [val |-> Nil, err |-> NoErr]
        /\ data = NoStrings /\ collectionFormat = ""
        /\ graph = <<>> /\ receiver = FreshSlice /\ raw = NoDoc
     \/ /\ run = "generic" /\ document \in GenericInputs /\ item = [val |-> Nil, err |-> NoErr]
        /\ data = NoStrings /\ collectionFormat = ""
        /\ graph = <<>> /\ receiver = FreshSlice /\ raw = NoDoc
     \/ /\ run = "json" /\ document = ZeroNode /\ item \in { Ok(v) : v \in Items }
        /\ data = NoStrings /\ collectionFormat = ""
        /\ graph = <<>> /\ receiver = FreshSlice /\ raw = NoDoc
     \/ /\ run = "doc" /\ document \in PipelineDocs /\ item = [val |-> Nil, err |-> NoErr]
        /\ data = NoStrings /\ collectionFormat = ""
        /\ graph = <<>> /\ receiver = FreshSlice /\ raw = NoDoc
     \/ /\ run = "util" /\ document = ZeroNode /\ item = [val |-> Nil, err |-> NoErr]
        /\ data \in TokenLists /\ collectionFormat \in Formats
        /\ graph = <<>> /\ receiver = FreshSlice /\ raw = NoDoc
     \/ /\ run = "graph" /\ document = ZeroNode /\ item = [val |-> Nil, err |-> NoErr]
        /\ data = NoStrings /\ collectionFormat = ""
        /\ graph \in NodeGraphs /\ receiver = FreshSlice /\ raw = NoDoc
     \/ /\ run = "decode" /\ document = ZeroNode /\ item = [val |-> Nil, err |-> NoErr]
        /\ data = NoStrings /\ collectionFormat = ""
        /\ graph = <<>> /\ receiver \in Receivers
        /\ raw \in { [val |-> d, err |-> NoErr] : d \in DecodeInputs }
  /\ back = NoNode
  /\ processors = <<>>
  /\ calls = <<>>
  /\ applied = NoNode
  /\ joined = NoStrings
  /\ text = <<>>
  /\ split = NoStrings
  /\ again = [item |-> NoNode, raw |-> NoDoc]
  /\ loaded = NoDoc
  /\ decoded = NoNode
  /\ ynode = NoNode
  /\ ydoc = NoNode

\* BytesToYAMLDoc, from the point where yaml.Unmarshal has parsed the bytes
BytesToYAMLDocAct ==
  /\ run = "yaml" /\ pc = "start"
  /\ loaded' = BytesToYAMLDoc(document)
  /\ pc' = "loaded"
  /\ UNCHANGED <<run, document, item, raw, decoded, ynode, ydoc, back, pipeVars, utilVars, moreVars>>

\* YAMLToJSON(document); item keeps what transformData returned
YAMLToJSONAct ==
  /\ \/ run = "yaml" /\ pc = "loaded"
     \/ run = "generic" /\ pc = "start"
  /\ item' = transformData(document)
  /\ raw' = YAMLToJSON(document)
  /\ pc' = "encoded"
  /\ UNCHANGED <<run, document, loaded, decoded, ynode, ydoc, back, pipeVars, utilVars, moreVars>>

\* item.MarshalJSON() on a given JSONMapSlice
MarshalJSONAct ==
  /\ run = "json" /\ pc = "start"
  /\ item.val.type = "JSONMapSlice"
  /\ raw' = [val |-> JSONMapSlice_MarshalJSON(item.val), err |-> NoErr]
  /\ pc' = "encoded"
  /\ UNCHANGED <<run, document, loaded, item, decoded, ynode, ydoc, back, pipeVars, utilVars, moreVars>>

\* receiver.UnmarshalJSON(raw); decoded keeps the receiver afterwards and
\* the error returned
UnmarshalJSONAct ==
  /\ \/ pc = "encoded"
     \/ run = "decode" /\ pc = "start"
  /\ raw.err = NoErr
  /\ decoded' = JSONMapSlice_UnmarshalJSON(receiver, raw.val)
  /\ pc' = "decoded"
  /\ UNCHANGED <<run, document, loaded, item, raw, ynode, ydoc, back, pipeVars, utilVars, moreVars>>

\* json2yaml(item)
Json2yamlAct ==
  /\ \/ pc = "decoded"
     \/ run = "json" /\ pc = "start" /\ item.val.type # "JSONMapSlice"
  /\ item.err = NoErr
  /\ ynode' = json2yaml(item.val)
  /\ pc' = "reversed"
  /\ UNCHANGED <<run, document, loaded, item, raw, decoded, ydoc, back, pipeVars, utilVars, moreVars>>

\* item.MarshalYAML(), up to the call of yaml.Marshal
MarshalYAMLAct ==
  /\ pc = "reversed"
  /\ item.val.type = "JSONMapSlice"
  /\ ydoc' = JSONMapSlice_MarshalYAML(item.val)
  /\ pc' = "done"
  /\ UNCHANGED <<run, document, loaded, item, raw, decoded, ynode, back, pipeVars, utilVars, moreVars>>

\* yamlNode on the node that json2yaml(item) returned
WalkBackAct ==
  /\ pc = "reversed"
  /\ ynode.err = NoErr
  /\ back' = yamlNode(ynode.val)
  /\ pc' = "back"
  /\ UNCHANGED <<run, document, loaded, item, raw, decoded, ynode, ydoc,
                 pipeVars, utilVars, moreVars>>

\* docOptionsWithDefaults applying one more WithDocProcessor option
WithDocProcessorAct ==
  /\ run = "doc" /\ pc = "start"
  /\ Len(processors) < MaxProcessors
  /\ \E p \in ProcessorNames : processors' = WithDocProcessor(processors, p)
  /\ UNCHANGED <<run, pc, document, loaded, item, raw, decoded, ynode, ydoc, back,
                 calls, applied, utilVars, moreVars>>

\* YAMLDoc(path, opts...)
YAMLDocAct ==
  /\ run = "doc" /\ pc = "start"
  /\ LET r == YAMLDoc(document, processors)
     IN  /\ loaded' = r.loaded
         /\ applied' = [val |-> r.applied.val, err |-> r.applied.err]
         /\ calls' = r.applied.calls
         /\ raw' = r.raw
  /\ pc' = "served"
  /\ UNCHANGED <<run, document, item, decoded, ynode, ydoc, back, processors, utilVars, moreVars>>

\* JoinByFormat(data, collectionFormat)
JoinByFormatAct ==
  /\ run = "util" /\ pc = "start"
  /\ joined' = JoinByFormat(data, collectionFormat)
  /\ pc' = "joined"
  /\ UNCHANGED <<run, document, loaded, item, raw, decoded, ynode, ydoc, back,
                 pipeVars, data, collectionFormat, text, split, moreVars>>

\* SplitByFormat on one of the strings JoinByFormat returned, or on ""
SplitByFormatAct ==
  /\ run = "util" /\ pc = "joined"
  /\ \E s \in { joined.strs[i] : i \in 1..Len(joined.strs) } \cup { <<>> } :
       /\ text' = s
       /\ split' = SplitByFormat(s, collectionFormat)
  /\ pc' = "split"
  /\ UNCHANGED <<run, document, loaded, item, raw, decoded, ynode, ydoc, back,
                 pipeVars, data, collectionFormat, joined, moreVars>>

\* a second YAMLToJSON(document) on the same generic map: the range over
\* the map yields its entries in an order the runtime picks at each call
YAMLToJSONAgainAct ==
  /\ run = "generic" /\ pc = "encoded"
  /\ document.type = "map[interface{}]interface{}"
  /\ \E q \in Orderings(document.gpairs) :
       again' = [item |-> transformData(GenericMap(q, document.gnil)),
                 raw  |-> YAMLToJSON(GenericMap(q, document.gnil))]
  /\ pc' = "encodedTwice"
  /\ UNCHANGED <<run, document, item, loaded, raw, decoded, ynode, ydoc, back,
                 pipeVars, utilVars, graph, receiver>>

\* yamlNode on the root of a node graph
WalkGraphAct ==
  /\ run = "graph" /\ pc = "start"
  /\ item' = yamlNodeG(graph, 1, 1)
  /\ pc' = "walked"
  /\ UNCHANGED <<run, document, loaded, raw, decoded, ynode, ydoc, back,
                 pipeVars, utilVars, moreVars>>

Next ==
  \/ BytesToYAMLDocAct
  \/ YAMLToJSONAct
  \/ MarshalJSONAct
  \/ UnmarshalJSONAct
  \/ Json2yamlAct
  \/ MarshalYAMLAct
  \/ WalkBackAct
  \/ WithDocProcessorAct
  \/ YAMLDocAct
  \/ JoinByFormatAct
  \/ SplitByFormatAct
  \/ WalkGraphAct
  \/ YAMLToJSONAgainAct

Spec == Init /\ [][Next]_vars

(* ------------------------------------------------------------------ *)
(* Helpers of the properties                                          *)
(* ------------------------------------------------------------------ *)
Walked == run = "yaml" /\ pc \in {"encoded", "decoded", "reversed", "done"}

Reversed == pc \in {"reversed", "done", "back"}

\* the Mapping node that yamlMapping is applied to first when document is
\* walked, as a zero- or one-element sequence
RootMapping ==
  IF document.Kind = "MappingNode" THEN <<document>>
  ELSE IF document.Kind = "DocumentNode" /\ Len(document.Content) = 1
            /\ document.Content[1].Kind = "MappingNode"
    THEN <<document.Content[1]>>
  ELSE <<>>

NumPairs(m) == Len(m.Content) \div 2

KeyNode(m, i) == m.Content[2 * i - 1]

ValueNode(m, i) == m.Content[2 * i]

EvenContent(m) == Len(m.Content) = 2 * NumPairs(m)

GoodKey(k) ==
  /\ k.Kind = "ScalarNode"
  /\ LongTag(k) \in {yamlStringScalar, yamlIntScalar, yamlFloatScalar}

RECURSIVE TopKeysFrom(_, _, _)
\* the object keys written at nesting depth 1 of the tokens b, in order
TopKeysFrom(b, i, depth) ==
  IF i > Len(b) THEN <<>>
  ELSE IF b[i].k = "delim" /\ b[i].t[1] \in {"{", "["}
    THEN TopKeysFrom(b, i + 1, depth + 1)
  ELSE IF b[i].k = "delim"
    THEN TopKeysFrom(b, i + 1, depth - 1)
  ELSE IF b[i].k = "string" /\ depth = 1 /\ i < Len(b) /\ b[i + 1] = SepTok(":")
    THEN <<b[i].t>> \o TopKeysFrom(b, i + 1, depth)
  ELSE TopKeysFrom(b, i + 1, depth)

TopKeys(b) == TopKeysFrom(b, 1, 0)

RECURSIVE KeyShape(_)
\* the keys of an ordered document, in order, each with the shape of its
\* value; a value that is no ordered document has the empty shape
KeyShape(v) ==
  IF v.type = "JSONMapSlice"
    THEN [i \in 1..Len(v.items) |-> <<v.items[i].Key, KeyShape(v.items[i].Value)>>]
    ELSE <<>>

RECURSIVE NoLists(_)
NoLists(v) ==
  CASE v.type = "JSONMapSlice" -> \A i \in 1..Len(v.items) : NoLists(v.items[i].Value)
    [] v.type \in {"[]interface{}", "JSONSliceItem"} -> FALSE
    [] OTHER -> TRUE

ScalarTypes == {"string", "int64", "uint64", "float64", "bool"}

RECURSIVE Supported(_)
\* a value made of the types json2yaml has a case for
Supported(v) ==
  CASE v.type = "JSONMapSlice" -> \A i \in 1..Len(v.items) : Supported(v.items[i].Value)
    [] v.type = "[]interface{}" -> \A i \in 1..Len(v.elems) : Supported(v.elems[i])
    [] OTHER -> v.type \in ScalarTypes \cup {"nil"}

ObjectRooted(n) ==
  /\ n.Kind = "DocumentNode"
  /\ Len(n.Content) = 1
  /\ n.Content[1].Kind = "MappingNode"

KnownTags ==
  { yamlStringScalar, yamlBoolScalar, yamlIntScalar, yamlFloatScalar,
    yamlTimestamp, yamlNull }

(* ------------------------------------------------------------------ *)
(* Properties                                                         *)
(* ------------------------------------------------------------------ *)

\* C1: a Mapping node of n pairs whose keys are str/int/float scalars and
\* whose values walk without error gives a JSONMapSlice of exactly n
\* entries, entry i holding the i-th key's text and the walked i-th value;
\* duplicate keys stay separate entries, and the JSON written has the same
\* keys in the same order.
C1_MappingKeepsEveryPair ==
  (Walked /\ RootMapping # <<>>) =>
    LET m == RootMapping[1]
    IN  (/\ EvenContent(m)
         /\ \A i \in 1..NumPairs(m) :
              GoodKey(KeyNode(m, i)) /\ yamlNode(ValueNode(m, i)).err = NoErr)
        =>
        /\ item.err = NoErr
        /\ item.val.type = "JSONMapSlice"
        /\ Len(item.val.items) = NumPairs(m)
        /\ \A i \in 1..NumPairs(m) :
             /\ item.val.items[i].Key = KeyNode(m, i).Value
             /\ item.val.items[i].Value = yamlNode(ValueNode(m, i)).val
        /\ raw.err = NoErr
        /\ TopKeys(raw.val) = [i \in 1..NumPairs(m) |-> KeyNode(m, i).Value]

\* C1 witness: a mapping with the key "a" twice has been walked into two
\* entries "a" with different values
C1_Witness ==
  /\ Walked /\ RootMapping # <<>>
  /\ item.err = NoErr
  /\ Len(item.val.items) = 2
  /\ item.val.items[1].Key = <<"a">>
  /\ item.val.items[2].Key = <<"a">>
  /\ item.val.items[1].Value # item.val.items[2].Value
  /\ TopKeys(raw.val) = << <<"a">>, <<"a">> >>

\* C2 (as claimed): decoding the JSON written for an ordered document built
\* by the forward walk succeeds and gives the same keys in the same order,
\* at the top level and in every nested object.  Stated for documents
\* holding no list.
C2_DecodeKeepsKeys ==
  (Walked /\ pc \in {"decoded", "reversed", "done"}
     /\ item.err = NoErr /\ item.val.type = "JSONMapSlice" /\ NoLists(item.val))
  => (decoded.err = NoErr /\ KeyShape(decoded.val) = KeyShape(item.val))

\* C3 (as claimed): decoding the JSON written for an ordered document gives
\* back, for every entry, a value of the same type and equal to the
\* original.  Stated for documents whose values are all scalars.
C3_DecodeKeepsTypes ==
  (pc \in {"decoded", "reversed", "done"}
     /\ item.err = NoErr /\ item.val.type = "JSONMapSlice"
     /\ \A i \in 1..Len(item.val.items) :
          item.val.items[i].Value.type \in ScalarTypes)
  => /\ decoded.err = NoErr
     /\ Len(decoded.val.items) = Len(item.val.items)
     /\ \A i \in 1..Len(item.val.items) :
          /\ decoded.val.items[i].Value.type = item.val.items[i].Value.type
          /\ decoded.val.items[i].Value = item.val.items[i].Value

\* C4 (as claimed): json2yaml turns an ordered document whose values are of
\* supported types into a Mapping node holding, per entry and in order, a
\* str-tagged key node and the converted value; MarshalYAML succeeds too.
C4_MapSliceToMapping ==
  (Reversed /\ item.err = NoErr /\ item.val.type = "JSONMapSlice"
     /\ ~item.val.isnil /\ Supported(item.val))
  => /\ ynode.err = NoErr
     /\ ynode.val.Kind = "MappingNode"
     /\ Len(ynode.val.Content) = 2 * Len(item.val.items)
     /\ \A i \in 1..Len(item.val.items) :
          /\ ynode.val.Content[2 * i - 1]
               = Scalar(yamlStringScalar, item.val.items[i].Key)
          /\ ynode.val.Content[2 * i].Kind
               = (CASE item.val.items[i].Value.type = "JSONMapSlice"
                         /\ ~item.val.items[i].Value.isnil -> "MappingNode"
                    [] item.val.items[i].Value.type = "[]interface{}"
                         /\ ~item.val.items[i].Value.lnil -> "SequenceNode"
                    [] OTHER -> "ScalarNode")
     /\ (pc = "done" => ydoc.err = NoErr)

\* C5: json2yaml tags a scalar by the value's runtime type: a string gives
\* the string tag and its own text, int64 and uint64 the integer tag and
\* their base-10 text, float64 the float tag, bool the boolean tag and
\* "true"/"false", and nil a scalar node whose tag (LongTag) is null.
C5_ScalarTagFromType ==
  (Reversed /\ item.err = NoErr /\ item.val.type \in ScalarTypes \cup {"nil"})
  => /\ ynode.err = NoErr
     /\ ynode.val.Kind = "ScalarNode"
     /\ CASE item.val.type = "string" ->
               LongTag(ynode.val) = yamlStringScalar /\ ynode.val.Value = item.val.str
          [] item.val.type = "int64" ->
               LongTag(ynode.val) = yamlIntScalar
                 /\ ParseInt(ynode.val.Value) = Ok(item.val)
          [] item.val.type = "uint64" ->
               LongTag(ynode.val) = yamlIntScalar
                 /\ AllDigits(ynode.val.Value)
                 /\ StripZeros(ynode.val.Value) = item.val.udigits
          [] item.val.type = "float64" ->
               LongTag(ynode.val) = yamlFloatScalar
                 /\ ParseFloat(ynode.val.Value) = Ok(item.val)
          [] item.val.type = "bool" ->
               LongTag(ynode.val) = yamlBoolScalar
                 /\ ynode.val.Value = (IF item.val.b THEN tTrue ELSE tFalse)
          [] OTHER -> LongTag(ynode.val) = yamlNull

\* C5 witness: the largest uint64 has been converted to an integer-tagged
\* node with its twenty digits
C5_Witness ==
  /\ Reversed /\ run = "json"
  /\ item.val = Uint64(MaxUint64Text)
  /\ ynode.err = NoErr
  /\ ynode.val = Scalar(yamlIntScalar, MaxUint64Text)

\* C6 (as claimed): an integer-tagged "42" walks to the int64 42, and a
\* float-tagged "42.0" walks to a float that json2yaml renders as a text
\* that still reads as a float, never as "42".
C6_FloatStaysFloat ==
  /\ (Walked /\ document = Scalar("!!int", t42))
       => item = Ok(Int64(FALSE, t42))
  /\ (Walked /\ Reversed /\ document = Scalar("!!float", t42p0))
       => /\ ynode.err = NoErr
          /\ ynode.val.Value # t42
          /\ ResolveTag(ynode.val.Value) = "!!float"

\* C7: a scalar node whose tag is null walks to the nil value with no
\* error, whatever its text is.
C7_NullTagGivesNil ==
  (Walked /\ document.Kind = "ScalarNode" /\ LongTag(document) = yamlNull)
  => (item.err = NoErr /\ item.val = Nil)

\* C7 witness: the null-tagged text "false" has been walked to nil
C7_Witness ==
  /\ Walked
  /\ document = Scalar("!!null", tFalse)
  /\ item = Ok(Nil)

\* C8: yamlScalar fails, with a nil value, when the tag is none of string,
\* boolean, integer, float, timestamp, null, or when the text does not
\* parse under a boolean, integer or float tag; a string or timestamp tag
\* returns the text unchanged.
C8_ScalarErrors ==
  (Walked /\ document.Kind = "ScalarNode") =>
    LET tag == LongTag(document)
        bad ==
          \/ tag \notin KnownTags
          \/ tag = yamlBoolScalar /\ ParseBool(document.Value).err # NoErr
          \/ tag = yamlIntScalar /\ ParseInt(document.Value).err # NoErr
          \/ tag = yamlFloatScalar /\ ParseFloat(document.Value).err # NoErr
    IN  /\ bad => (item.err # NoErr /\ item.val = Nil /\ raw.err # NoErr)
        /\ ~bad => item.err = NoErr
        /\ tag \in {yamlStringScalar, yamlTimestamp}
             => item = Ok(String(document.Value))

\* C8 witness: the integer-tagged text 9223372036854775808, one above the
\* signed 64-bit range, has been rejected
C8_Witness ==
  /\ Walked
  /\ document = Scalar("!!int", tBig)
  /\ item.err # NoErr
  /\ item.val = Nil

C10_BadKeyFails ==
  (Walked /\ RootMapping # <<>>) =>
    LET m == RootMapping[1]
    IN  (\E i \in 1..NumPairs(m) : ~GoodKey(KeyNode(m, i)))
        => (item.err # NoErr /\ item.val = Nil /\ raw.err # NoErr)

\* C10 witness: a boolean-tagged key after a valid pair has made the walk
\* of the mapping fail on the key
C10_Witness ==
  /\ Walked /\ RootMapping # <<>>
  /\ NumPairs(RootMapping[1]) = 2
  /\ GoodKey(KeyNode(RootMapping[1], 1))
  /\ yamlNode(ValueNode(RootMapping[1], 1)).err = NoErr
  /\ KeyNode(RootMapping[1], 2) = Scalar("!!bool", tTrue)
  /\ item.err # NoErr
  /\ item.err[1] = "unable to decode YAML map key"
  /\ item.val = Nil

(* ---- helpers of C11 and C12 ---- *)
\* the index of key k among the key nodes of the Mapping node n
KeyIndexes(n, k) ==
  { i \in 1..NumPairs(n) : KeyNode(n, i) = Scalar(yamlStringScalar, k) }

RECURSIVE ListsAndMapsOnly(_)
\* a value in which no JSONMapSlice occurs
ListsAndMapsOnly(v) ==
  CASE v.type = "JSONMapSlice" -> FALSE
    [] v.type = "[]interface{}" -> \A i \in 1..Len(v.elems) : ListsAndMapsOnly(v.elems[i])
    [] v.type = "map[string]interface{}" ->
         \A i \in 1..Len(v.pairs) : ListsAndMapsOnly(v.pairs[i].Value)
    [] OTHER -> TRUE

SupportedTypes ==
  ScalarTypes \cup {"nil", "JSONMapSlice", "[]interface{}", "map[string]interface{}"}

RECURSIVE UnsupportedTypesIn(_)
\* the names of the unsupported types met in v, through lists and maps
UnsupportedTypesIn(v) ==
  CASE v.type = "[]interface{}" ->
         UNION { UnsupportedTypesIn(v.elems[i]) : i \in 1..Len(v.elems) }
    [] v.type = "map[string]interface{}" ->
         UNION { UnsupportedTypesIn(v.pairs[i].Value) : i \in 1..Len(v.pairs) }
    [] v.type \in SupportedTypes -> {}
    [] OTHER -> {v.type}

\* C11: json2yaml on a map[string]interface{} whose values all convert gives
\* a Mapping node whose keys are str-tagged scalars in strictly ascending
\* byte order, every key of the map exactly once and followed by the
\* conversion of its own value; every iteration order of the same map gives
\* the same node.
C11_MapKeysSorted ==
  (Reversed /\ item.err = NoErr /\ item.val.type = "map[string]interface{}"
     /\ ~item.val.mnil
     /\ \A i \in 1..Len(item.val.pairs) : json2yaml(item.val.pairs[i].Value).err = NoErr)
  => /\ ynode.err = NoErr
     /\ ynode.val.Kind = "MappingNode"
     /\ Len(ynode.val.Content) = 2 * Len(item.val.pairs)
     /\ \A i \in 1..(NumPairs(ynode.val) - 1) :
          StringLess(KeyNode(ynode.val, i).Value, KeyNode(ynode.val, i + 1).Value)
     /\ \A p \in 1..Len(item.val.pairs) :
          /\ Cardinality(KeyIndexes(ynode.val, item.val.pairs[p].Key)) = 1
          /\ \A i \in KeyIndexes(ynode.val, item.val.pairs[p].Key) :
               ValueNode(ynode.val, i) = json2yaml(item.val.pairs[p].Value).val
     /\ \A q \in Orderings(item.val.pairs) :
          json2yaml(StringMap(q, FALSE)) = ynode

\* C11 witness: a map yielding "9" before "10" has been converted to a
\* Mapping node with "10" first
C11_Witness ==
  /\ Reversed /\ item.val.type = "map[string]interface{}"
  /\ Len(item.val.pairs) = 2
  /\ item.val.pairs[1].Key = <<"9">> /\ item.val.pairs[2].Key = <<"1","0">>
  /\ item.val.pairs[1].Value # item.val.pairs[2].Value
  /\ ynode.err = NoErr
  /\ KeyNode(ynode.val, 1).Value = <<"1","0">>
  /\ KeyNode(ynode.val, 2).Value = <<"9">>
  /\ ValueNode(ynode.val, 2) = json2yaml(item.val.pairs[1].Value).val

\* C12: json2yaml on a value holding, at the top level or inside lists and
\* maps, a non-nil value of a type it has no case for returns a nil node
\* and an error naming one of the unsupported types met.
C12_UnsupportedTypeFails ==
  (Reversed /\ item.err = NoErr /\ ListsAndMapsOnly(item.val)
     /\ UnsupportedTypesIn(item.val) # {})
  => /\ ynode.val = Nil
     /\ Len(ynode.err) = 2
     /\ ynode.err[1] = "unhandled type"
     /\ ynode.err[2] \in UnsupportedTypesIn(item.val)

\* C12 witness: a list whose first element converts and whose second is a
\* []byte has been refused, with no node returned
C12_Witness ==
  /\ Reversed
  /\ item.val = List(<<Int64(FALSE, t42), Bytes(<<"a">>)>>, FALSE)
  /\ ynode = Fail(<<"unhandled type", "[]uint8">>)

(* ---- helpers of C13 and C14 ---- *)
Served == run = "doc" /\ pc = "served" /\ loaded.err = NoErr

RECURSIVE Composed(_, _)
\* Pn(...P1(doc)...) for the processors ps = P1..Pn
Composed(ps, doc) ==
  IF ps = <<>> THEN doc
  ELSE Process(ps[Len(ps)], Composed(SubSeq(ps, 1, Len(ps) - 1), doc)).val

\* the error of the k-th processor on the output of the k-1 before it
ErrorOf(ps, k, doc) == Process(ps[k], Composed(SubSeq(ps, 1, k - 1), doc)).err

\* the index of the first processor to fail, 0 when all succeed
FirstFailure(ps, doc) ==
  IF \E k \in 1..Len(ps) : ErrorOf(ps, k, doc) # NoErr
    THEN CHOOSE k \in 1..Len(ps) :
           /\ ErrorOf(ps, k, doc) # NoErr
           /\ \A j \in 1..(k - 1) : ErrorOf(ps, j, doc) = NoErr
    ELSE 0

\* C13: when every registered processor succeeds, ApplyTransforms returns
\* Pn(...P1(input)...) and a nil error, having invoked the processors once
\* each in registration order; with no processor it returns the input
\* document; YAMLDoc then returns YAMLToJSON of that result.
C13_ProcessorsInOrder ==
  (Served /\ FirstFailure(processors, document) = 0)
  => /\ applied = Ok(Composed(processors, document))
     /\ calls = processors
     /\ (processors = <<>> => applied = Ok(document))
     /\ raw = YAMLToJSON(applied.val)

\* C13 witness: addY then addX have been applied to {b: 1}, and the JSON
\* returned has the keys b, y, x in that order
C13_Witness ==
  /\ Served
  /\ processors = <<"addY", "addX">>
  /\ calls = <<"addY", "addX">>
  /\ applied.err = NoErr
  /\ raw.err = NoErr
  /\ TopKeys(raw.val) = << <<"b">>, <<"y">>, <<"x">> >>

\* C14: when Pk is the first processor to fail, ApplyTransforms returns a
\* nil document and Pk's error, exactly P1..Pk have been invoked, once each
\* and in order, and YAMLDoc returns that error and no JSON.
C14_FirstFailureStops ==
  (Served /\ FirstFailure(processors, document) > 0)
  => LET k == FirstFailure(processors, document)
     IN  /\ applied = Fail(ErrorOf(processors, k, document))
         /\ calls = SubSeq(processors, 1, k)
         /\ raw = [val |-> <<>>, err |-> ErrorOf(processors, k, document)]

\* C14 witness: of addX, fail, addY only addX and fail have been invoked and
\* YAMLDoc has returned the failing processor's error
C14_Witness ==
  /\ Served
  /\ processors = <<"addX", "fail", "addY">>
  /\ calls = <<"addX", "fail">>
  /\ applied = Fail(<<"processor failed">>)
  /\ raw = [val |-> <<>>, err |-> <<"processor failed">>]

(* ---- helpers of C15 and C16 ---- *)
\* YAMLToJSON has been given a value that is no node; item holds what
\* transformData returned for it
Transformed == run = "generic" /\ pc # "start"

GoodKeyTypes == {"string"} \cup SignedTypes \cup UnsignedTypes

RECURSIVE BadKeyTypesIn(_)
\* the types of the keys, met in v through generic maps and lists, that are
\* neither strings nor integers
BadKeyTypesIn(v) ==
  CASE v.type = "map[interface{}]interface{}" ->
         { v.gpairs[i].Key.type :
             i \in { j \in 1..Len(v.gpairs) : v.gpairs[j].Key.type \notin GoodKeyTypes } }
           \cup UNION { BadKeyTypesIn(v.gpairs[i].Value) : i \in 1..Len(v.gpairs) }
    [] v.type = "[]interface{}" ->
         UNION { BadKeyTypesIn(v.elems[i]) : i \in 1..Len(v.elems) }
    [] OTHER -> {}

\* the string or base-10 form of a string or integer key
KeyText(k) ==
  IF k.type = "string" THEN k.str
  ELSE IF k.type \in UnsignedTypes THEN k.udigits
  ELSE (IF k.neg THEN <<"-">> ELSE <<>>) \o k.digits

\* C15: transformData on a map[interface{}]interface{} in which every key,
\* at every depth through generic maps and lists, is a string or an integer
\* returns an ordered document with one entry per map entry, its key the
\* string or base-10 form of the map key and its value the transformed
\* value; when a key of another type occurs at any depth it returns nil
\* and an error naming such a key's type.
C15_KeysCoerced ==
  (Transformed /\ ~IsNode(document)
     /\ document.type = "map[interface{}]interface{}")
  => IF BadKeyTypesIn(document) = {}
       THEN /\ item.err = NoErr
            /\ item.val.type = "JSONMapSlice"
            /\ Len(item.val.items) = Len(document.gpairs)
            /\ \A i \in 1..Len(document.gpairs) :
                 /\ item.val.items[i].Key = KeyText(document.gpairs[i].Key)
                 /\ item.val.items[i].Value = transformData(document.gpairs[i].Value).val
       ELSE /\ item.val = Nil
            /\ Len(item.err) = 2
            /\ item.err[1] = "unexpected map key type"
            /\ item.err[2] \in BadKeyTypesIn(document)

\* C15 witness: a map with the uint8 key 7 over a map with the int key 7
\* has become the document {"7": {"7": "a"}}
C15_Witness ==
  /\ Transformed
  /\ document = GenericMap(<<MapItem(Unsigned("uint8", <<"7">>), InnerGeneric)>>, FALSE)
  /\ item = Ok(MapSlice(<<MapItem(<<"7">>,
                   MapSlice(<<MapItem(<<"7">>, String(<<"a">>))>>, FALSE))>>, FALSE))

\* C16 (as claimed): a document returned without error by transformData
\* for a generic map never holds two entries with the same key.
C16_NoDuplicateKeys ==
  (Transformed /\ ~IsNode(document)
     /\ document.type = "map[interface{}]interface{}" /\ item.err = NoErr)
  => DistinctKeys(item.val.items)

(* ---- C17 ---- *)
\* C17: whenever yamlNode, transformData, json2yaml, MarshalYAML or
\* ApplyTransforms returns an error, the value returned with it is nil; a
\* mapping with a bad key or a failing value, and a sequence with a failing
\* element, walk to nil and an error, which YAMLToJSON returns with no
\* JSON.  (A walk that panics returns nothing and is left out.)
C17_NilValueOnError ==
  /\ ((Walked \/ Transformed) /\ item.err # NoErr /\ ~IsPanic(item.err))
       => (item.val = Nil /\ raw = [val |-> <<>>, err |-> item.err])
  /\ (Reversed /\ ynode.err # NoErr) => ynode.val = Nil
  /\ (pc = "done" /\ ydoc.err # NoErr) => ydoc.val = Nil
  /\ (Served /\ applied.err # NoErr) => applied.val = Nil
  /\ (Walked /\ RootMapping # <<>> /\ EvenContent(RootMapping[1])
        /\ \E i \in 1..NumPairs(RootMapping[1]) :
             \/ ~GoodKey(KeyNode(RootMapping[1], i))
             \/ yamlNode(ValueNode(RootMapping[1], i)).err # NoErr)
       => (item.err # NoErr /\ item.val = Nil /\ raw.err # NoErr)
  /\ (Walked /\ document.Kind = "SequenceNode"
        /\ \E i \in 1..Len(document.Content) : yamlNode(document.Content[i]).err # NoErr)
       => (item.err # NoErr /\ item.val = Nil /\ raw.err # NoErr)

\* C17 witness: a mapping whose first value walks and whose second value
\* holds a sequence failing on its second element has been walked to nil
\* and an error, and YAMLToJSON has returned that error
C17_Witness ==
  /\ Walked /\ RootMapping # <<>>
  /\ NumPairs(RootMapping[1]) = 2
  /\ yamlNode(ValueNode(RootMapping[1], 1)).err = NoErr
  /\ ValueNode(RootMapping[1], 2) = FailingDeep
  /\ item.val = Nil
  /\ item.err # NoErr
  /\ raw = [val |-> <<>>, err |-> item.err]

(* ---- helpers of C18 ---- *)
\* item is a given ordered document and raw holds its MarshalJSON
Marshalled == run = "json" /\ pc # "start" /\ item.val.type = "JSONMapSlice"

\* how many of the tokens b are the token tk
CountTok(b, tk) == Cardinality({ i \in 1..Len(b) : b[i] = tk })

RECURSIVE SumOver(_, _)
\* the sum of f[1..n]
SumOver(f, n) == IF n = 0 THEN 0 ELSE f[n] + SumOver(f, n - 1)

RECURSIVE CountValues(_, _)
\* how many values of the type named ty occur in v, v included, through
\* ordered documents and lists
CountValues(v, ty) ==
  (IF v.type = ty THEN 1 ELSE 0)
    + (CASE v.type = "JSONMapSlice" ->
              SumOver([i \in 1..Len(v.items) |-> CountValues(v.items[i].Value, ty)],
                      Len(v.items))
         [] v.type = "[]interface{}" ->
              SumOver([i \in 1..Len(v.elems) |-> CountValues(v.elems[i], ty)],
                      Len(v.elems))
         [] OTHER -> 0)

ClaimedSeparator(fmt) ==
  IF fmt = "pipes" THEN "|"
  ELSE IF fmt = "tsv" THEN "\t"
  ELSE IF fmt = "ssv" THEN " "
  ELSE ","

\* a non-empty token holding no separator and no outer whitespace
GoodToken(t, sep) ==
  /\ t # <<>>
  /\ \A i \in 1..Len(t) : t[i] # sep
  /\ t[1] \notin WhiteSpace
  /\ t[Len(t)] \notin WhiteSpace

\* C19: for a format other than multi and a non-empty list of non-empty
\* tokens holding no separator of the format and no leading or trailing
\* whitespace, JoinByFormat returns exactly one string and SplitByFormat of
\* it returns the list; for multi JoinByFormat returns the list unchanged
\* and SplitByFormat returns nil; an empty list is returned as it is and
\* the empty string splits to nil.
C19_JoinSplitRoundTrip ==
  (run = "util" /\ pc \in {"joined", "split"})
  => /\ (/\ collectionFormat # "multi"
         /\ Len(data.strs) > 0
         /\ \A i \in 1..Len(data.strs) :
              GoodToken(data.strs[i], ClaimedSeparator(collectionFormat)))
        => /\ Len(joined.strs) = 1
           /\ ~joined.snil
           /\ (pc = "split" /\ text = joined.strs[1])
                => (split.strs = data.strs /\ ~split.snil)
     /\ collectionFormat = "multi"
        => /\ joined = data
           /\ pc = "split" => split = StrSlice(<<>>, TRUE)
     /\ Len(data.strs) = 0 => joined = data
     /\ (pc = "split" /\ text = <<>>) => split = StrSlice(<<>>, TRUE)

\* C19 witness: "a,b" and "a|b" have been joined with a space and split
\* back into the same two tokens
C19_Witness ==
  /\ run = "util" /\ pc = "split"
  /\ collectionFormat = "ssv"
  /\ data.strs = << <<"a", ",", "b">>, <<"a", "|", "b">> >>
  /\ joined.strs = << <<"a", ",", "b", " ", "a", "|", "b">> >>
  /\ text = joined.strs[1]
  /\ split.strs = data.strs

(* ---- C20 ---- *)
\* C20 (as claimed): for a value made of ordered documents, lists, strings,
\* int64, uint64, float64 and bool, json2yaml succeeds and yamlNode on the
\* node it built succeeds and returns a value equal to the original, of
\* the same types.  Stated for values holding no nil.
C20_ReverseThenWalk ==
  (Reversed /\ item.err = NoErr /\ Supported(item.val)
     /\ CountValues(item.val, "nil") = 0 /\ ~isNil(item.val))
  => /\ ynode.err = NoErr
     /\ pc = "back" => back = Ok(item.val)

(* ---- helpers of C21 ---- *)
RECURSIVE ReachableFrom(_, _, _)
\* the ids reached from the ids in S through Content and Alias, in at most
\* n steps
ReachableFrom(nodes, S, n) ==
  IF n = 0 THEN S
  ELSE ReachableFrom(nodes,
         S \cup UNION { { nodes[i].Content[j] : j \in 1..Len(nodes[i].Content) }
                          \cup { nodes[i].Alias[j] : j \in 1..Len(nodes[i].Alias) } :
                        i \in S },
         n - 1)

\* the ids that node id points at
Children(nodes, id) ==
  { nodes[id].Content[j] : j \in 1..Len(nodes[id].Content) }
    \cup { nodes[id].Alias[j] : j \in 1..Len(nodes[id].Alias) }

\* some alias reaches a node that contains it
Cyclic(nodes) ==
  \E i \in 1..Len(nodes) :
    i \in ReachableFrom(nodes, Children(nodes, i), Len(nodes))

\* C21 (as claimed): the walk of a node graph ends: yamlNode returns a
\* value or an error to its caller, and a graph in which an alias reaches
\* a node containing it is rejected with an error.
C21_CyclicWalkEnds ==
  (run = "graph" /\ pc = "walked")
  => /\ ~IsFatal(item.err)
     /\ Cyclic(graph) => item.err # NoErr

(* ---- C22 ---- *)
\* C22 (as claimed): yamlMapping on a Mapping node whose Content holds an
\* odd number of nodes returns an error to its caller and does not index
\* out of range.
C22_OddMappingRejected ==
  (Walked /\ RootMapping # <<>> /\ ~EvenContent(RootMapping[1]))
  => (item.err # NoErr /\ ~IsPanic(item.err))

(* ---- helpers of C23 ---- *)
\* the scalar tag resolver on a key node: the parse its tag asks for
ResolveKey(k) ==
  IF LongTag(k) = yamlIntScalar THEN ParseInt(k.Value)
  ELSE IF LongTag(k) = yamlFloatScalar THEN ParseFloat(k.Value)
  ELSE Ok(String(k.Value))

\* the stringification of a resolved key
KeyString(v) ==
  IF v.type = "int64" THEN FormatInt(v)
  ELSE IF v.type = "float64" THEN FormatFloat(v)
  ELSE v.str

\* C23 (as claimed): an integer or float key is resolved through the
\* scalar tag resolver: a key whose text does not parse under its tag
\* makes the walk fail, and the Entry key is the stringification of the
\* resolved value, so keys denoting the same integer give the same Entry key.
C23_KeysResolved ==
  (Walked /\ RootMapping # <<>> /\ EvenContent(RootMapping[1])
     /\ \A i \in 1..NumPairs(RootMapping[1]) : GoodKey(KeyNode(RootMapping[1], i)))
  => LET m == RootMapping[1]
     IN  /\ (\E i \in 1..NumPairs(m) : ResolveKey(KeyNode(m, i)).err # NoErr)
               => item.err # NoErr
         /\ item.err = NoErr
               => \A i \in 1..NumPairs(m) :
                    item.val.items[i].Key = KeyString(ResolveKey(KeyNode(m, i)).val)

(* ---- C24 ---- *)
\* C24 (as claimed): two calls of YAMLToJSON on the same generic map with
\* two or more keys give the same JSONMapSlice, entries in the same order,
\* and the same bytes.
C24_SameResultEveryCall ==
  (run = "generic" /\ pc = "encodedTwice" /\ Len(document.gpairs) >= 2)
  => (again.item = item /\ again.raw = raw)

(* ---- C25 ---- *)
\* C25 (as claimed): when UnmarshalJSON returns an error, the receiver
\* holds afterwards what it held before the call: no partially decoded
\* entries and no blank entry.
C25_ReceiverKeptOnError ==
  (pc = "decoded" /\ decoded.err # NoErr) => decoded.val = receiver

====
